---- MODULE Spec2Model ----
(***************************************************************************)
(* Tenant-scoped policy cache subsystem of the multi-tenant RBAC service:  *)
(*   - RequestQueue (bounded concurrency queue)          server, index.js  *)
(*   - TenantEnforcerCache (memory-aware LRU cache)      casbin.js         *)
(*   - SharedConnectionPool / TenantAwareAdapter         store access      *)
(*   - RedisManager invalidation bus                     redis.js          *)
(*   - the write / read / refresh request handlers       index.js          *)
(* The specifications share the variables:                                 *)
(*   QueueSpec  the RequestQueue alone                                     *)
(*   CacheSpec  the TenantEnforcerCache class driven by direct calls       *)
(*   Spec       two replicas, the shared rule table and the broker         *)
(*   FaultSpec  requests on one replica, with store and broker faults      *)
(*   BusSpec    manual refreshes and the bus, every process environment    *)
(*   GroupSpec  POST /create-group on two replicas                         *)
(*   RedisSpec  RedisManager.initialize in one process                     *)
(*   SingletonSpec  getRedisManager and the RedisManager constructor       *)
(*   AdapterSpec    TenantAwareAdapter called directly                     *)
(*   RateSpec       the rateLimit middleware                               *)
(*   TenantSpec     access checks for more tenants than the cache holds    *)
(*   PressureSpec   writes and access checks on a replica with a full cache*)
(*   QueueLiveSpec  the RequestQueue with tasks that eventually settle     *)
(*   SnapshotSpec   policy loads while other processes commit writes       *)
(* A step of Spec is one turn of a replica's event loop (the code between  *)
(* two waits on the store or the broker) or one statement executed by the  *)
(* store or the broker.                                                    *)
(***************************************************************************)
EXTENDS Integers, Sequences, FiniteSets, TLC

\* ------------------------------------------------------------------ bounds
MaxTasks == 4
MaxConcurrentChoice == 2
MaxQueueChoice == 2
MaxNow == 3
MaxCacheSize == 2
MaxInst == 3
MaxReq == 2
MaxFail == 1
MaxLateReads == 1
MaxInitCalls == 3
MaxCopies == 1
MaxRateNow == 4
MaxWindowMs == 3
MaxRateRequests == 2
MaxManagerCalls == 6

\* ------------------------------------------------------- program constants
CleanupInterval == 30000
AggressivePercent == 70
BytesPerPolicy == 100
BytesPerGrouping == 80
BaseEnforcerBytes == 1024

\* the step by which Date.now() advances: two steps make a cleanup due
TickMs == CleanupInterval \div 2

\* ------------------------------------------------------------- tiny helpers
None == "none"

Range(s) == {s[i] : i \in 1..Len(s)}

\* Array.prototype.filter(t => t !== x)
RECURSIVE FilterOut(_, _)
FilterOut(s, x) ==
  IF s = <<>> THEN <<>>
  ELSE IF Head(s) = x THEN FilterOut(Tail(s), x)
       ELSE <<Head(s)>> \o FilterOut(Tail(s), x)

VARIABLES
  now,          \* Date.now(), in ms
  tc,           \* per replica: the TenantEnforcerCache object (tenantCache)
  heap,         \* the enforcer objects created so far, by id: [tenant, p, g]
  lastOp,       \* the cache call made by the last step: [op, rep, tenant, thr]
  rq,           \* the RequestQueue object: maxConcurrent, maxQueueSize, running, queue, stats
  immediates,   \* number of setImmediate(() => processQueue()) callbacks not yet run
  submitted,    \* number of add() calls made so far; the next task is submitted + 1
  taskState,    \* per task: "new", "queued", "running", "settled"
  taskRuns,     \* per task: how many times task() was invoked
  taskOut,      \* per task: the outcomes the caller of add() received, in order
  taskFull,     \* per task: was queue.length >= maxQueueSize when add() was called
  startOrder,   \* task ids in the order task() was invoked
  store,        \* the casbin_rule table: how many copies of each row it holds
  pool,         \* per replica: the SharedConnectionPool object
  redisUp,      \* per replica: globalIsConnected, with the subscription it implies
  env,          \* per replica: process.env.SERVER_ID and process.env.PORT
  inbox,        \* per replica: tenant-refresh messages the broker has yet to hand over
  procs,        \* the requests and message handlers started so far, in start order
  failures,     \* number of store and broker faults that have occurred
  redis,        \* one process's redis.js module: its variables, clients, promises, callers
  adapter,      \* a TenantAwareAdapter object called directly: tenant, model, last call
  limiter       \* the rateLimit middleware: its parameters, its Map, what it has answered

qvars == <<rq, immediates, submitted, taskState, taskRuns, taskOut, taskFull, startOrder>>

cvars == <<tc, heap, lastOp>>

svars == <<store, pool, redisUp, env, inbox, procs, failures, redis, adapter, limiter>>

vars == <<now, tc, heap, lastOp,
          rq, immediates, submitted, taskState, taskRuns, taskOut, taskFull, startOrder,
          store, pool, redisUp, env, inbox, procs, failures, redis, adapter, limiter>>

\* =========================================================================
\* TenantEnforcerCache and the enforcer objects it holds
\* =========================================================================
Replicas == {"rA", "rB"}
TenantNames == <<"t1", "t2", "t3", "t4", "t5">>
Tenants == {"t1", "t2"}
CacheTenants == {TenantNames[i] : i \in 1..(IF MaxCacheSize + 1 < 5 THEN MaxCacheSize + 1 ELSE 5)}

\* new TenantEnforcerCache(50)
SysMaxSize == 50

\* process.memoryUsage(): heapUsed / heapTotal in percent, as sampled by a call
HeapLevels == {50, 80, 90}

\* how the teardown in evictTenant ends: both calls return, clearPolicy() throws,
\* or clearGroupingPolicy() throws after clearPolicy() has emptied the model
TeardownOutcomes == {"ok", "clearPolicyThrows", "clearGroupingPolicyThrows"}

EmptyMap == [x \in {} |-> x]
MapRemove(f, k) == [x \in (DOMAIN f) \ {k} |-> f[x]]
MapPut(f, k, v) == (k :> v) @@ f

\* constructor(maxSize)
NewTenantEnforcerCache(maxSize, t) ==
  [ maxSize         |-> maxSize,
    cache           |-> EmptyMap,
    accessOrder     |-> <<>>,
    memoryUsage     |-> EmptyMap,
    lastCleanup     |-> t,
    cleanupInterval |-> CleanupInterval ]

\* estimateEnforcerMemory(enforcer)
EstimateEnforcerMemory(e) ==
  Cardinality(e.p) * BytesPerPolicy + Cardinality(e.g) * BytesPerGrouping + BaseEnforcerBytes

\* enforcer.clearPolicy(): the model's p and g sections are both emptied
ClearPolicy(e) == [e EXCEPT !.p = {}, !.g = {}]

\* the try block of evictTenant on the enforcer with id i
Teardown(h, i, thr) ==
  IF thr = "clearPolicyThrows" THEN h ELSE [h EXCEPT ![i] = ClearPolicy(@)]

\* evictTenant(tenant); w = [c: the cache object, h: the enforcer objects]
EvictTenant_returnOnThrow(w, tenant, thr) ==
  IF tenant \in DOMAIN w.c.cache /\ thr # "ok"
    THEN [w EXCEPT !.h = Teardown(@, w.c.cache[tenant], thr)]
    ELSE [w EXCEPT !.c.cache = MapRemove(@, tenant),
                   !.c.memoryUsage = MapRemove(@, tenant),
                   !.c.accessOrder = FilterOut(@, tenant),
                   !.h = IF tenant \in DOMAIN w.c.cache
                           THEN Teardown(@, w.c.cache[tenant], thr) ELSE @]
\* an evictTenant that forgets the memory accounting
EvictTenant_keepsAccounting(w, tenant, thr) ==
  [w EXCEPT !.c.cache = MapRemove(@, tenant),
            !.c.accessOrder = FilterOut(@, tenant),
            !.h = IF tenant \in DOMAIN w.c.cache
                    THEN Teardown(@, w.c.cache[tenant], thr) ELSE @]
EvictTenant(w, tenant, thr) ==
  [w EXCEPT !.c.cache = MapRemove(@, tenant),
            !.c.memoryUsage = MapRemove(@, tenant),
            !.c.accessOrder = FilterOut(@, tenant),
            !.h = IF tenant \in DOMAIN w.c.cache
                    THEN Teardown(@, w.c.cache[tenant], thr) ELSE @]

\* const lruTenant = this.accessOrder.shift(); if (lruTenant) this.evictTenant(lruTenant)
ShiftAndEvict(w, thr) ==
  IF w.c.accessOrder = <<>> THEN w
  ELSE EvictTenant([w EXCEPT !.c.accessOrder = Tail(@)], Head(w.c.accessOrder), thr)

\* for (let i = 0; i < evictCount; i++) { shift and evict }
RECURSIVE EvictLoop(_, _, _)
EvictLoop(w, evictCount, thr) ==
  IF evictCount <= 0 THEN w ELSE EvictLoop(ShiftAndEvict(w, thr), evictCount - 1, thr)

\* a cleanup without its first test
CleanupNotDue_never(c, t) == FALSE

\* cleanup(): if (now - this.lastCleanup < this.cleanupInterval) return
CleanupNotDue(c, t) == t - c.lastCleanup < c.cleanupInterval

\* cleanup(): const shouldAggressiveEvict = heapUsagePercent > 70
ShouldAggressiveEvict(heapPct) == heapPct > AggressivePercent

\* cleanup(): Math.floor(this.cache.size * 0.7)
AggressiveEvictCount(size) == (size * 7) \div 10

\* cleanup()
Cleanup(w, t, heapPct, thr) ==
  IF CleanupNotDue(w.c, t) THEN w
  ELSE LET size == Cardinality(DOMAIN w.c.cache)
           swept == IF ShouldAggressiveEvict(heapPct)
                      THEN EvictLoop(w, AggressiveEvictCount(size), thr)
                    ELSE IF size > w.c.maxSize
                      THEN EvictLoop(w, size - w.c.maxSize, thr)
                    ELSE w
       IN [swept EXCEPT !.c.lastCleanup = t]

\* a get that leaves the access order as it is
CacheGet_noTouch(w, tenant, t, heapPct, thr) == Cleanup(w, t, heapPct, thr)

\* get(tenant): the cache and the enforcers after the call
CacheGet(w, tenant, t, heapPct, thr) ==
  LET w1 == Cleanup(w, t, heapPct, thr) IN
    IF tenant \in DOMAIN w1.c.cache
      THEN [w1 EXCEPT !.c.accessOrder = Append(FilterOut(@, tenant), tenant)]
      ELSE w1

\* get(tenant): the value returned, as a set: the enforcer's id, or empty for null
CacheGetResult(w, tenant, t, heapPct, thr) ==
  LET w1 == Cleanup(w, t, heapPct, thr) IN
    IF tenant \in DOMAIN w1.c.cache THEN {w1.c.cache[tenant]} ELSE {}

\* set(): if (this.cache.size >= this.maxSize)
AtCapacity_gt(c) == Cardinality(DOMAIN c.cache) > c.maxSize
AtCapacity(c) == Cardinality(DOMAIN c.cache) >= c.maxSize

\* set(tenant, enforcer), enforcer given by its id
CacheSet(w, tenant, e, t, heapPct, thr) ==
  LET w1 == Cleanup(w, t, heapPct, thr) IN
    IF tenant \in DOMAIN w1.c.cache
      THEN [w1 EXCEPT !.c.cache = MapPut(@, tenant, e),
                      !.c.accessOrder = Append(FilterOut(@, tenant), tenant)]
      ELSE LET w2 == IF AtCapacity(w1.c) THEN ShiftAndEvict(w1, thr) ELSE w1 IN
             [w2 EXCEPT !.c.cache = MapPut(@, tenant, e),
                        !.c.accessOrder = Append(@, tenant),
                        !.c.memoryUsage = MapPut(@, tenant, EstimateEnforcerMemory(w2.h[e]))]

\* delete(tenant)
CacheDelete(w, tenant, thr) == EvictTenant(w, tenant, thr)

\* getStats()
GetStats(c) ==
  LET total == IF DOMAIN c.memoryUsage = {} THEN 0
               ELSE LET RECURSIVE Sum(_)
                        Sum(S) == IF S = {} THEN 0
                                  ELSE LET k == CHOOSE x \in S : TRUE
                                       IN c.memoryUsage[k] + Sum(S \ {k})
                    IN Sum(DOMAIN c.memoryUsage)
  IN [ size |-> Cardinality(DOMAIN c.cache),
       maxSize |-> c.maxSize,
       tenants |-> DOMAIN c.cache,
       total |-> total,
       lastCleanup |-> c.lastCleanup ]

World(r) == [c |-> tc[r], h |-> heap]

\* process.memoryUsage() is read only by a cleanup pass that runs
HeapSamples(c, t) == IF CleanupNotDue(c, t) THEN {50} ELSE HeapLevels

\* the teardown outcome is drawn only by a call that can reach evictTenant
GetTeardowns(c, t) == IF CleanupNotDue(c, t) THEN {"ok"} ELSE TeardownOutcomes
SetTeardowns(c, tenant, t) ==
  IF CleanupNotDue(c, t) /\ (tenant \in DOMAIN c.cache \/ ~AtCapacity(c))
    THEN {"ok"} ELSE TeardownOutcomes

\* the enforcer a caller hands to set(): a fresh object holding some rules of the tenant
SampleEnforcers(tenant) ==
  { [tenant |-> tenant, p |-> ps, g |-> gs] :
      ps \in {{<<"admin", "doc1", "read", tenant>>}},
      gs \in {{}, {<<"alice", "admin", tenant>>}} }

CacheStart(sizes) ==
  /\ \E m \in sizes : tc = [r \in Replicas |-> NewTenantEnforcerCache(m, 0)]
  /\ heap = <<>>
  /\ lastOp = [op |-> "init"]

\* a direct call tenantCache.get(tenant)
CallGet(r, tenant) ==
  \E heapPct \in HeapSamples(tc[r], now), thr \in GetTeardowns(tc[r], now) :
    LET w == CacheGet(World(r), tenant, now, heapPct, thr) IN
      /\ tc' = [tc EXCEPT ![r] = w.c]
      /\ heap' = w.h
      /\ lastOp' = [op |-> "get", rep |-> r, tenant |-> tenant, thr |-> thr, heapPct |-> heapPct]
      /\ UNCHANGED now
      /\ UNCHANGED qvars
      /\ UNCHANGED svars

\* a direct call tenantCache.set(tenant, enforcer) with a newly built enforcer
CallSet(r, tenant) ==
  /\ Len(heap) < MaxInst
  /\ \E heapPct \in HeapSamples(tc[r], now), thr \in SetTeardowns(tc[r], tenant, now),
        e \in SampleEnforcers(tenant) :
       LET id == Len(heap) + 1
           w == CacheSet([c |-> tc[r], h |-> Append(heap, e)], tenant, id, now, heapPct, thr)
       IN
         /\ tc' = [tc EXCEPT ![r] = w.c]
         /\ heap' = w.h
         /\ lastOp' = [op |-> "set", rep |-> r, tenant |-> tenant, thr |-> thr, heapPct |-> heapPct]
         /\ UNCHANGED now
         /\ UNCHANGED qvars
         /\ UNCHANGED svars

\* a direct call tenantCache.delete(tenant), i.e. evictTenant(tenant)
CallDelete(r, tenant) ==
  \E thr \in TeardownOutcomes :
    LET w == CacheDelete(World(r), tenant, thr) IN
      /\ tc' = [tc EXCEPT ![r] = w.c]
      /\ heap' = w.h
      /\ lastOp' = [op |-> "delete", rep |-> r, tenant |-> tenant, thr |-> thr]
      /\ UNCHANGED now
      /\ UNCHANGED qvars
      /\ UNCHANGED svars

CacheTick ==
  /\ now < MaxNow * TickMs
  /\ now' = now + TickMs
  /\ lastOp' = [op |-> "tick"]
  /\ UNCHANGED <<tc, heap>>
  /\ UNCHANGED qvars
  /\ UNCHANGED svars

\* =========================================================================
\* RequestQueue
\* =========================================================================
Tasks == 1..MaxTasks

QueueFullError == <<"QueueFull">>
TaskResult(i) == <<"result", i>>
TaskError(i) == <<"error", i>>

\* constructor(maxConcurrent, maxQueueSize)
NewRequestQueue(maxConcurrent, maxQueueSize) ==
  [ maxConcurrent |-> maxConcurrent,
    maxQueueSize  |-> maxQueueSize,
    running       |-> 0,
    queue         |-> <<>>,
    stats         |-> [ totalRequests    |-> 0,
                        queuedRequests   |-> 0,
                        rejectedRequests |-> 0,
                        averageWaitTime  |-> [num |-> 0, den |-> 1],
                        totalWaitTime    |-> 0 ] ]

\* add(): if (this.queue.length >= this.maxQueueSize)
QueueIsFull_gt(q) == Len(q.queue) > q.maxQueueSize
QueueIsFull(q) == Len(q.queue) >= q.maxQueueSize

\* processQueue(): if (this.running >= this.maxConcurrent || this.queue.length === 0) return
CannotDispatch_noLimit(q) == Len(q.queue) = 0
CannotDispatch(q) == q.running >= q.maxConcurrent \/ Len(q.queue) = 0

\* a queue that hands out its newest entry first
QueueShift_newest(entries) ==
  [entry |-> entries[Len(entries)], rest |-> SubSeq(entries, 1, Len(entries) - 1)]

\* this.queue.shift(): the first entry, and the array that is left
QueueShift(entries) == [entry |-> Head(entries), rest |-> Tail(entries)]

\* processQueue() up to the await of task(): the queue object after the call
\* (the ratio totalWaitTime / totalRequests is kept exact as a fraction)
DispatchHead(q, t) ==
  LET entry == QueueShift(q.queue).entry
      total == q.stats.totalWaitTime + (t - entry.timestamp)
  IN [q EXCEPT !.running = @ + 1,
               !.queue = QueueShift(@).rest,
               !.stats.totalWaitTime = total,
               !.stats.averageWaitTime = [num |-> total, den |-> q.stats.totalRequests]]

ProcessQueue(q, t) == IF CannotDispatch(q) THEN q ELSE DispatchHead(q, t)

\* the tasks whose task() the call processQueue() invokes: none or the head's
Dispatched(q) == IF CannotDispatch(q) THEN {} ELSE {QueueShift(q.queue).entry.task}

\* add(task), rejected: the queue is full
AddRejected ==
  /\ submitted < MaxTasks
  /\ QueueIsFull(rq)
  /\ LET i == submitted + 1 IN
       /\ submitted' = i
       /\ rq' = [rq EXCEPT !.stats.totalRequests = @ + 1,
                           !.stats.rejectedRequests = @ + 1]
       /\ taskFull' = [taskFull EXCEPT ![i] = Len(rq.queue) >= rq.maxQueueSize]
       /\ taskOut' = [taskOut EXCEPT ![i] = Append(@, QueueFullError)]
       /\ taskState' = [taskState EXCEPT ![i] = "settled"]
  /\ UNCHANGED <<now, immediates, taskRuns, startOrder>>
  /\ UNCHANGED cvars
  /\ UNCHANGED svars

\* add(task), accepted: push the entry, then processQueue() in the same call
AddAccepted ==
  /\ submitted < MaxTasks
  /\ ~QueueIsFull(rq)
  /\ LET i == submitted + 1
         pushed == [rq EXCEPT !.stats.totalRequests = @ + 1,
                              !.stats.queuedRequests = @ + 1,
                              !.queue = Append(@, [task |-> i, timestamp |-> now])]
         d == Dispatched(pushed)
     IN
       /\ submitted' = i
       /\ taskFull' = [taskFull EXCEPT ![i] = Len(rq.queue) >= rq.maxQueueSize]
       /\ rq' = ProcessQueue(pushed, now)
       /\ taskState' = [j \in Tasks |-> IF j \in d THEN "running"
                                         ELSE IF j = i THEN "queued" ELSE taskState[j]]
       /\ taskRuns' = [j \in Tasks |-> IF j \in d THEN taskRuns[j] + 1 ELSE taskRuns[j]]
       /\ startOrder' = IF d = {} THEN startOrder ELSE Append(startOrder, QueueShift(pushed.queue).entry.task)
  /\ UNCHANGED <<now, immediates, taskOut>>
  /\ UNCHANGED cvars
  /\ UNCHANGED svars

\* a processQueue whose finally block does not schedule the next processQueue
TaskSettles_noImmediate(i, ok) ==
  /\ taskState[i] = "running"
  /\ taskOut' = [taskOut EXCEPT ![i] = Append(@, IF ok THEN TaskResult(i) ELSE TaskError(i))]
  /\ taskState' = [taskState EXCEPT ![i] = "settled"]
  /\ rq' = [rq EXCEPT !.running = @ - 1]
  /\ UNCHANGED <<now, immediates, submitted, taskRuns, taskFull, startOrder>>
  /\ UNCHANGED cvars
  /\ UNCHANGED svars

\* processQueue() after the await: task() fulfilled (resolve) or rejected (reject),
\* then finally { this.running--; setImmediate(() => this.processQueue()) }
TaskSettles(i, ok) ==
  /\ taskState[i] = "running"
  /\ taskOut' = [taskOut EXCEPT ![i] = Append(@, IF ok THEN TaskResult(i) ELSE TaskError(i))]
  /\ taskState' = [taskState EXCEPT ![i] = "settled"]
  /\ rq' = [rq EXCEPT !.running = @ - 1]
  /\ immediates' = immediates + 1
  /\ UNCHANGED <<now, submitted, taskRuns, taskFull, startOrder>>
  /\ UNCHANGED cvars
  /\ UNCHANGED svars

\* the setImmediate callback: processQueue()
RunImmediate ==
  /\ immediates > 0
  /\ immediates' = immediates - 1
  /\ LET d == Dispatched(rq) IN
       /\ rq' = ProcessQueue(rq, now)
       /\ taskState' = [j \in Tasks |-> IF j \in d THEN "running" ELSE taskState[j]]
       /\ taskRuns' = [j \in Tasks |-> IF j \in d THEN taskRuns[j] + 1 ELSE taskRuns[j]]
       /\ startOrder' = IF d = {} THEN startOrder ELSE Append(startOrder, QueueShift(rq.queue).entry.task)
  /\ UNCHANGED <<now, submitted, taskOut, taskFull>>
  /\ UNCHANGED cvars
  /\ UNCHANGED svars

\* Date.now() advances
QueueTick ==
  /\ now < MaxNow * TickMs
  /\ now' = now + TickMs
  /\ UNCHANGED qvars
  /\ UNCHANGED cvars
  /\ UNCHANGED svars

QueueStart(mcs, mqs) ==
  /\ \E mc \in mcs, mq \in mqs : rq = NewRequestQueue(mc, mq)
  /\ immediates = 0
  /\ submitted = 0
  /\ taskState = [i \in Tasks |-> "new"]
  /\ taskRuns = [i \in Tasks |-> 0]
  /\ taskOut = [i \in Tasks |-> <<>>]
  /\ taskFull = [i \in Tasks |-> FALSE]
  /\ startOrder = <<>>

\* =========================================================================
\* The casbin_rule table and the TenantAwareAdapter
\* =========================================================================
\* SQL NULL / JavaScript null
Null == "null"

\* a row of casbin_rule
Row(ptype, v0, v1, v2, v3, v4) ==
  [ptype |-> ptype, v0 |-> v0, v1 |-> v1, v2 |-> v2, v3 |-> v3, v4 |-> v4]

\* request bodies the clients send
PermissionBodies == {[role |-> "admin", obj |-> "doc1", act |-> "read", tenant |-> "t1"]}
AssignBodies == {[userId |-> "alice", groupName |-> "admin", tenant |-> "t1"]}
CheckBodies ==
  {[userId |-> "alice", obj |-> "doc1", act |-> "read", tenant |-> t] : t \in Tenants}
RefreshBodies == {[tenant |-> "t1"]}
GroupBodies == {[groupName |-> "admin", tenant |-> "t1"]}

\* rows the table holds before the first request: rules of the other tenant
InitialRows ==
  { Row("p", "admin", "doc1", "read", "t2", Null),
    Row("g", "alice", "admin", "t2", Null, Null) }

\* addPolicy(sec, ptype, rule) of the adapter whose tenant is adapterTenant:
\* the row it inserts
AdapterRow(adapterTenant, ptype, rule) ==
  LET values == [i \in 0..4 |-> IF i < Len(rule) THEN rule[i + 1] ELSE Null]
      v == IF ptype = "p" THEN [values EXCEPT ![3] = adapterTenant]
           ELSE IF ptype = "g" THEN [values EXCEPT ![2] = adapterTenant]
           ELSE values
  IN Row(ptype, v[0], v[1], v[2], v[3], v[4])

\* enforcer.addPolicy(role, obj, act, tenant) / addGroupingPolicy(userId, groupName, tenant)
PermissionRule(b) == <<b.role, b.obj, b.act, b.tenant>>
AssignRule(b) == <<b.userId, b.groupName, b.tenant>>
\* create-group pre-checks the grouping rule [groupName, groupName]
GroupRule(b) == <<b.groupName, b.groupName, b.tenant>>

AllRows ==
  InitialRows
    \cup {AdapterRow(b.tenant, "p", PermissionRule(b)) : b \in PermissionBodies}
    \cup {AdapterRow(b.tenant, "g", AssignRule(b)) : b \in AssignBodies}

\* INSERT INTO casbin_rule (ptype, v0, v1, v2, v3, v4) VALUES (...)
InsertRow(st, row) == [st EXCEPT ![row] = @ + 1]

\* SELECT COUNT(*) FROM casbin_rule WHERE ptype = ? AND v0 = ? AND v1 = ? AND v2 = ? [AND v3 = ?]
RECURSIVE SumCounts(_, _)
SumCounts(st, rows) ==
  IF rows = {} THEN 0
  ELSE LET r == CHOOSE x \in rows : TRUE IN st[r] + SumCounts(st, rows \ {r})
CountMatching(st, ptype, values, tenant) ==
  SumCounts(st, { r \in DOMAIN st :
                    /\ r.ptype = ptype
                    /\ r.v0 = values[1]
                    /\ r.v1 = values[2]
                    /\ IF ptype = "p" THEN r.v2 = values[3] /\ r.v3 = tenant
                                      ELSE r.v2 = tenant })

\* checkDatabaseDuplicate(ptype, values, tenant); completed is false when the try
\* block throws (no shared adapter to call, query timeout, connection error)
CheckDatabaseDuplicate(st, completed, ptype, values, tenant) ==
  IF completed THEN CountMatching(st, ptype, values, tenant) > 0 ELSE FALSE

\* loadPolicy: SELECT v0, v1, v2, v3, v4 FROM casbin_rule WHERE ptype = 'p' AND v3 = ?
SelectPolicies_anyTenant(st, tenant) ==
  {r \in DOMAIN st : st[r] > 0 /\ r.ptype = "p"}
SelectPolicies(st, tenant) ==
  {r \in DOMAIN st : st[r] > 0 /\ r.ptype = "p" /\ r.v3 = tenant}

\* loadPolicy: SELECT v0, v1, v2 FROM casbin_rule WHERE ptype = 'g' AND v2 = ?
SelectGroupingPolicies(st, tenant) ==
  {r \in DOMAIN st : st[r] > 0 /\ r.ptype = "g" /\ r.v2 = tenant}

\* [policy.v0, policy.v1, policy.v2, policy.v3, policy.v4].filter(v => v !== null)
PolicyArray(r) == SelectSeq(<<r.v0, r.v1, r.v2, r.v3, r.v4>>, LAMBDA v : v # Null)

\* [groupingPolicy.v0, groupingPolicy.v1, groupingPolicy.v2]
GroupingPolicyArray(r) == <<r.v0, r.v1, r.v2>>

\* the enforcer newEnforcer(model.conf, adapter) returns once loadPolicy has put
\* the two result sets into the model (model.addPolicy keeps one copy of a rule)
LoadedEnforcer(tenant, policies, groupingPolicies) ==
  [ tenant |-> tenant,
    p |-> {PolicyArray(r) : r \in policies},
    g |-> {GroupingPolicyArray(r) : r \in groupingPolicies} ]

\* enforcer.hasPolicy / hasGroupingPolicy
HasRule(e, ptype, rule) == IF ptype = "p" THEN rule \in e.p ELSE rule \in e.g

\* model.addPolicy(sec, ptype, rule) on the enforcer's in-memory model
ModelAddPolicy(e, ptype, rule) ==
  IF ptype = "p" THEN [e EXCEPT !.p = @ \cup {rule}] ELSE [e EXCEPT !.g = @ \cup {rule}]

\* enforcer.enforce(userId, obj, act, tenant): some permission rule of the tenant
\* for obj and act whose subject is the user or a group the user is assigned to
Enforce(e, userId, obj, act, tenant) ==
  \E rule \in e.p :
    /\ Len(rule) = 4
    /\ rule[2] = obj /\ rule[3] = act /\ rule[4] = tenant
    /\ (rule[1] = userId \/ <<userId, rule[1], tenant>> \in e.g)

\* =========================================================================
\* Replicas: request handlers, enforcer creation, refresh and the Redis bus
\* =========================================================================
WriteKinds == {"add-permission", "assign-user"}
AccessKinds == {"check-access", "checkAccess"}
\* the requests that refresh and publish without a rule of their own
RefreshKinds == {"refresh-tenant", "create-group"}
ClientKinds == WriteKinds \cup AccessKinds \cup RefreshKinds

\* process.env of a replica: SERVER_ID set on each, or neither SERVER_ID nor PORT set
EnvChoices ==
  { [r \in Replicas |-> [SERVER_ID |-> IF r = "rA" THEN "server-1" ELSE "server-2",
                         PORT |-> Null]],
    [r \in Replicas |-> [SERVER_ID |-> Null, PORT |-> Null]] }

\* every way the two processes may be started: each with or without SERVER_ID,
\* the second one also with PORT set
BusEnvChoices ==
  { e \in [Replicas -> [SERVER_ID : {"server-1", "server-2", Null}, PORT : {Null, "3001"}]] :
      /\ e["rA"].SERVER_ID \in {"server-1", Null} /\ e["rA"].PORT = Null
      /\ e["rB"].SERVER_ID \in {"server-2", Null}
      /\ e["rB"].SERVER_ID # Null => e["rB"].PORT = Null }

\* `server-${process.env.PORT || 3000}`
PortServerId(e) == "server-" \o (IF e.PORT = Null THEN "3000" ELSE e.PORT)

\* publishTenantRefresh: serverId: process.env.SERVER_ID || `server-${process.env.PORT || 3000}`
PublishedServerId(e) == IF e.SERVER_ID # Null THEN e.SERVER_ID ELSE PortServerId(e)

\* handleTenantRefresh: skip if this is our own message
IsOwnMessage(e, serverId) == serverId = e.SERVER_ID \/ serverId = PortServerId(e)

\* new SharedConnectionPool()
NewSharedConnectionPool == [initialized |-> FALSE, created |-> 0, tenantAdapters |-> {}]

\* redisManager.isReady()
IsReady(r) == redisUp[r]

\* a request or message handler that has just been entered
NewProc(kind, r, tenant, ptype, rule) ==
  [ kind |-> kind, rep |-> r, tenant |-> tenant, ptype |-> ptype, rule |-> rule,
    pc |-> "new", phase |-> "-", e |-> {}, bufP |-> {}, bufG |-> {},
    dup |-> FALSE, checkThrew |-> FALSE, failed |-> FALSE, added |-> FALSE,
    after |-> {}, seen |-> {}, src |-> 0, out |-> [status |-> 0, body |-> "-"] ]

\* the machine a step of a handler works on: the replica's cache and pool, the
\* enforcer objects and the handler's own locals
Machine(r, p) == [c |-> tc[r], h |-> heap, pool |-> pool[r], p |-> p]

\* the handler is over: res.json(...) / res.status(...).json(...) or the handler returns
Respond(m, status, body) ==
  [m EXCEPT !.p.pc = "done", !.p.phase = "-", !.p.e = {}, !.p.bufP = {}, !.p.bufG = {},
            !.p.out = [status |-> status, body |-> body]]

\* an exported function called by other code returns a value to its caller
Returns(m, value) == Respond(m, 0, value)

\* what the caller of getTenantEnforcer does with its rejection: the endpoints
\* answer 500 with the error's message; checkAccess catches, logs and returns false
EnforcerError(m) ==
  IF m.p.kind = "checkAccess" THEN Returns(m, "false") ELSE Respond(m, 500, "error")

\* createTenantEnforcer(tenant) up to its first wait on the store:
\* sharedPool.getTenantAdapter(tenant), then newEnforcer(...) issues the first query
CreateTenantEnforcer(m, phase) ==
  IF ~m.pool.initialized
    THEN [m EXCEPT !.pool.created = @ + 1,
                   !.p.phase = phase, !.p.failed = FALSE, !.p.pc = "authenticate"]
    ELSE [m EXCEPT !.pool.tenantAdapters = @ \cup {m.p.tenant},
                   !.p.phase = phase, !.p.failed = FALSE, !.p.pc = "loadPolicies"]

\* refreshTenantAndNotify(tenant, operation) up to its first wait
RefreshTenantAndNotify(m) == CreateTenantEnforcer([m EXCEPT !.p.e = {}], "refresh")

\* the handler after getTenantEnforcer(tenant) has returned the enforcer id:
\* check-access enforces and answers; a write calls enforcer.addPolicy, which
\* returns false at once when the model has the rule and else asks the adapter
GotEnforcer(m, id) ==
  IF m.p.kind = "check-access"
    THEN LET e == m.h[id]
             q == m.p.rule
         IN Respond([m EXCEPT !.p.seen = {[p |-> e.p, g |-> e.g]}], 200,
                    IF Enforce(e, q[1], q[2], q[3], q[4]) THEN "allowed:true"
                                                         ELSE "allowed:false")
  ELSE IF m.p.kind = "checkAccess"
    THEN LET e == m.h[id]
             q == m.p.rule
         IN Returns([m EXCEPT !.p.seen = {[p |-> e.p, g |-> e.g]}],
                    IF Enforce(e, q[1], q[2], q[3], q[4]) THEN "true" ELSE "false")
  ELSE IF m.p.kind = "create-group"
    THEN RefreshTenantAndNotify(m)
  ELSE IF HasRule(m.h[id], m.p.ptype, m.p.rule)
    THEN RefreshTenantAndNotify([m EXCEPT !.p.added = FALSE])
  ELSE [m EXCEPT !.p.e = {id}, !.p.pc = "insert"]

\* getTenantEnforcer(tenant) and what follows it in the same turn
GetTenantEnforcer(m, t, heapPct, thr) ==
  LET hit == CacheGetResult(m, m.p.tenant, t, heapPct, thr)
      m1 == CacheGet(m, m.p.tenant, t, heapPct, thr)
  IN IF hit # {} THEN GotEnforcer(m1, CHOOSE id \in hit : TRUE)
     ELSE CreateTenantEnforcer(m1, "enforcer")

\* a write handler that goes on whatever the pre-check has returned
DuplicateChecked_ignored(m, t, heapPct, thr) == GetTenantEnforcer(m, t, heapPct, thr)

\* if (isDuplicate) throw new Error('... already exists ...'), which the handler's
\* catch block answers; else getTenantEnforcer(tenant) and enforcer.addPolicy(...)
DuplicateChecked(m, t, heapPct, thr) ==
  IF m.p.dup THEN Respond(m, 500, "error:already exists")
  ELSE GetTenantEnforcer(m, t, heapPct, thr)

\* the end of a write or of a manual refresh: res.json({ success: ... })
Finish(m) ==
  Respond(m, 200, IF m.p.kind \in RefreshKinds \/ m.p.added THEN "success:true"
                  ELSE "success:false")

\* a publishTenantRefresh that lets the error reach the handler's catch block
NotPublished_throws(m) == Respond(m, 500, "error")

\* publishTenantRefresh has returned without sending: isReady() was false, or
\* publish failed and the error was caught and logged; the handler answers
NotPublished(m) == Finish(m)

\* a refreshTenantAndNotify that does not call publishTenantRefresh
AfterRefresh_noPublish(m, ready) ==
  IF m.p.kind = "redis-refresh"
    THEN Respond(m, 0, IF m.p.failed THEN "refresh failed" ELSE "refreshed")
  ELSE NotPublished(m)

\* a refresh that gives up the tenant's entry when the reload has failed
AfterRefresh_evictOnFailure(m, ready) ==
  LET m0 == IF m.p.failed THEN CacheDelete(m, m.p.tenant, "ok") ELSE m IN
  IF m0.p.kind = "redis-refresh"
    THEN Respond(m0, 0, IF m0.p.failed THEN "refresh failed" ELSE "refreshed")
  ELSE IF ready
    THEN [m0 EXCEPT !.p.pc = "publish", !.p.phase = "-", !.p.bufP = {}, !.p.bufG = {}]
  ELSE NotPublished(m0)

\* a refresh that publishes whoever asked for it, the message handler included
AfterRefresh_alwaysPublish(m, ready) ==
  IF ready
    THEN [m EXCEPT !.p.pc = "publish", !.p.phase = "-", !.p.bufP = {}, !.p.bufG = {}]
  ELSE IF m.p.kind = "redis-refresh"
    THEN Respond(m, 0, IF m.p.failed THEN "refresh failed" ELSE "refreshed")
  ELSE NotPublished(m)

\* after refreshTenantPolicies has returned (its error, if any, swallowed):
\* the message handler is done; a request goes on to publishTenantRefresh
AfterRefresh(m, ready) ==
  IF m.p.kind = "redis-refresh"
    THEN Respond(m, 0, IF m.p.failed THEN "refresh failed" ELSE "refreshed")
  ELSE IF ready
    THEN [m EXCEPT !.p.pc = "publish", !.p.phase = "-", !.p.bufP = {}, !.p.bufG = {}]
  ELSE NotPublished(m)

\* the turn that runs when createTenantEnforcer settles: on an error the request
\* fails (getTenantEnforcer) or goes on (refreshTenantPolicies); else the new
\* enforcer is put into the cache with tenantCache.set
EnforcerCreated(m, t, heapPct, thr, ready) ==
  IF m.p.failed
    THEN IF m.p.phase = "enforcer" THEN EnforcerError(m) ELSE AfterRefresh(m, ready)
  ELSE LET id == Len(m.h) + 1
           m1 == [m EXCEPT !.h = Append(@, LoadedEnforcer(m.p.tenant, m.p.bufP, m.p.bufG))]
           m2 == CacheSet(m1, m.p.tenant, id, t, heapPct, thr)
       IN IF m.p.phase = "enforcer" THEN GotEnforcer(m2, id) ELSE AfterRefresh(m2, ready)

\* the turn that runs when adapter.addPolicy settles: on an error the request
\* fails; else the rule is added to the model of the enforcer the handler holds
\* and the handler goes on to refreshTenantAndNotify
RuleInserted(m) ==
  IF m.p.failed THEN Respond(m, 500, "error")
  ELSE LET id == CHOOSE x \in m.p.e : TRUE IN
         RefreshTenantAndNotify(
           [m EXCEPT !.h[id] = ModelAddPolicy(@, m.p.ptype, m.p.rule), !.p.added = TRUE])

\* every handler that can start: the client requests, and one message handler per
\* replica for each request that publishes
ProcIds == 1..((MaxReq + MaxLateReads) + Cardinality(Replicas) * MaxReq)

ClientRequests == {i \in 1..Len(procs) : procs[i].kind \in ClientKinds}

\* the clients send up to MaxReq requests that may overlap
MayStart == Cardinality(ClientRequests) < MaxReq

\* and up to MaxLateReads access checks sent when nothing else is in progress
MayStartLate ==
  /\ Cardinality(ClientRequests) < MaxReq + MaxLateReads
  /\ \A i \in 1..Len(procs) : procs[i].pc = "done"
  /\ \A r \in Replicas : inbox[r] = <<>>

\* the writes that have answered success on replica r for the tenant
ReturnedWrites(r, tenant) ==
  { i \in 1..Len(procs) :
      /\ procs[i].kind \in WriteKinds
      /\ procs[i].rep = r /\ procs[i].tenant = tenant
      /\ procs[i].pc = "done"
      /\ procs[i].out = [status |-> 200, body |-> "success:true"] }

\* the step writes back the machine it worked on; i is the handler's index
Commit(r, i, m) ==
  /\ tc' = [tc EXCEPT ![r] = m.c]
  /\ heap' = m.h
  /\ pool' = [pool EXCEPT ![r] = m.pool]
  /\ procs' = IF i > Len(procs) THEN Append(procs, m.p) ELSE [procs EXCEPT ![i] = m.p]

\* POST /add-permission arrives: checkDatabaseDuplicate('p', [role, obj, act], tenant) starts
StartAddPermission(r, b) ==
  /\ MayStart
  /\ procs' = Append(procs, [NewProc("add-permission", r, b.tenant, "p", PermissionRule(b))
                               EXCEPT !.pc = "check"])
  /\ UNCHANGED <<now, store, pool, redisUp, adapter, env, limiter, redis, inbox, failures>>
  /\ UNCHANGED cvars
  /\ UNCHANGED qvars

\* POST /assign-user arrives: checkDatabaseDuplicate('g', [userId, groupName], tenant) starts
StartAssignUser(r, b) ==
  /\ MayStart
  /\ procs' = Append(procs, [NewProc("assign-user", r, b.tenant, "g", AssignRule(b))
                               EXCEPT !.pc = "check"])
  /\ UNCHANGED <<now, store, pool, redisUp, adapter, env, limiter, redis, inbox, failures>>
  /\ UNCHANGED cvars
  /\ UNCHANGED qvars

\* POST /create-group arrives: checkDatabaseDuplicate('g', [groupName, groupName], tenant) starts
StartCreateGroup(r, b) ==
  /\ MayStart
  /\ procs' = Append(procs, [NewProc("create-group", r, b.tenant, "g", GroupRule(b))
                               EXCEPT !.pc = "check"])
  /\ UNCHANGED <<now, store, pool, redisUp, adapter, env, limiter, redis, inbox, failures>>
  /\ UNCHANGED cvars
  /\ UNCHANGED qvars

\* POST /check-access arrives: getTenantEnforcer(tenant), and on a hit enforce and answer
StartCheckAccess(r, b) ==
  /\ MayStart \/ MayStartLate
  /\ \E heapPct \in HeapSamples(tc[r], now), thr \in GetTeardowns(tc[r], now) :
       LET p == [NewProc("check-access", r, b.tenant, "-", <<b.userId, b.obj, b.act, b.tenant>>)
                   EXCEPT !.after = ReturnedWrites(r, b.tenant)]
       IN Commit(r, Len(procs) + 1, GetTenantEnforcer(Machine(r, p), now, heapPct, thr))
  /\ UNCHANGED <<now, lastOp, store, redisUp, adapter, env, limiter, redis, inbox, failures>>
  /\ UNCHANGED qvars

\* code of the process calls the exported checkAccess(userId, obj, act, tenant)
CallCheckAccess(r, b) ==
  /\ MayStart
  /\ \E heapPct \in HeapSamples(tc[r], now), thr \in GetTeardowns(tc[r], now) :
       LET p == NewProc("checkAccess", r, b.tenant, "-", <<b.userId, b.obj, b.act, b.tenant>>)
       IN Commit(r, Len(procs) + 1, GetTenantEnforcer(Machine(r, p), now, heapPct, thr))
  /\ UNCHANGED <<now, lastOp, store, redisUp, adapter, env, limiter, redis, inbox, failures>>
  /\ UNCHANGED qvars

\* POST /refresh-tenant arrives: refreshTenantAndNotify(tenant, 'refresh-tenant')
StartRefreshTenant(r, b) ==
  /\ MayStart
  /\ Commit(r, Len(procs) + 1,
            RefreshTenantAndNotify(Machine(r, NewProc("refresh-tenant", r, b.tenant, "-", <<>>))))
  /\ UNCHANGED <<now, lastOp, store, redisUp, adapter, env, limiter, redis, inbox, failures>>
  /\ UNCHANGED qvars

\* the store answers the duplicate pre-check, or the try block throws; the
\* error is logged and lost when checkDatabaseDuplicate returns (checkThrew
\* keeps it for one step, no code reads it)
DuplicateCheckQuery(i) ==
  /\ i \in DOMAIN procs
  /\ procs[i].pc = "check"
  /\ \E completed \in BOOLEAN :
       procs' = [procs EXCEPT ![i].dup = CheckDatabaseDuplicate(store, completed,
                                            procs[i].ptype, procs[i].rule, procs[i].tenant),
                              ![i].checkThrew = ~completed,
                              ![i].pc = "checked"]
  /\ UNCHANGED <<now, store, pool, redisUp, adapter, env, limiter, redis, inbox, failures>>
  /\ UNCHANGED cvars
  /\ UNCHANGED qvars

\* the write handler resumes after the pre-check: throw 'already exists', or
\* getTenantEnforcer(tenant) and enforcer.addPolicy(...)
AfterDuplicateCheck(i) ==
  /\ i \in DOMAIN procs
  /\ procs[i].pc = "checked"
  /\ LET r == procs[i].rep IN
       \E heapPct \in HeapSamples(tc[r], now), thr \in GetTeardowns(tc[r], now) :
         Commit(r, i, DuplicateChecked(Machine(r, [procs[i] EXCEPT !.checkThrew = FALSE]),
                                       now, heapPct, thr))
  /\ UNCHANGED <<now, lastOp, store, redisUp, adapter, env, limiter, redis, inbox, failures>>
  /\ UNCHANGED qvars

\* sequelize.authenticate() succeeds: initialized = true, then getTenantAdapter
\* creates or reuses the tenant's adapter and newEnforcer issues the first query
Authenticated(i) ==
  /\ i \in DOMAIN procs
  /\ procs[i].pc = "authenticate"
  /\ LET r == procs[i].rep IN
       /\ pool' = [pool EXCEPT ![r].initialized = TRUE,
                               ![r].tenantAdapters = @ \cup {procs[i].tenant}]
       /\ procs' = [procs EXCEPT ![i].pc = "loadPolicies"]
  /\ UNCHANGED <<now, store, redisUp, adapter, env, limiter, redis, inbox, failures>>
  /\ UNCHANGED cvars
  /\ UNCHANGED qvars

\* loadPolicy: the store answers the query for the tenant's ptype = 'p' rows
LoadPolicies(i) ==
  /\ i \in DOMAIN procs
  /\ procs[i].pc = "loadPolicies"
  /\ procs' = [procs EXCEPT ![i].bufP = SelectPolicies(store, procs[i].tenant),
                            ![i].pc = "loadGrouping"]
  /\ UNCHANGED <<now, store, pool, redisUp, adapter, env, limiter, redis, inbox, failures>>
  /\ UNCHANGED cvars
  /\ UNCHANGED qvars

\* loadPolicy: the store answers the query for the tenant's ptype = 'g' rows
LoadGrouping(i) ==
  /\ i \in DOMAIN procs
  /\ procs[i].pc = "loadGrouping"
  /\ procs' = [procs EXCEPT ![i].bufG = SelectGroupingPolicies(store, procs[i].tenant),
                            ![i].pc = "created"]
  /\ UNCHANGED <<now, store, pool, redisUp, adapter, env, limiter, redis, inbox, failures>>
  /\ UNCHANGED cvars
  /\ UNCHANGED qvars

\* createTenantEnforcer has settled: the awaiting handler resumes
EnforcerSettled(i) ==
  /\ i \in DOMAIN procs
  /\ procs[i].pc = "created"
  /\ LET r == procs[i].rep IN
       \E heapPct \in HeapSamples(tc[r], now), thr \in SetTeardowns(tc[r], procs[i].tenant, now) :
         Commit(r, i, EnforcerCreated(Machine(r, procs[i]), now, heapPct, thr, IsReady(r)))
  /\ UNCHANGED <<now, lastOp, store, redisUp, adapter, env, limiter, redis, inbox, failures>>
  /\ UNCHANGED qvars

\* adapter.addPolicy: the store executes the INSERT
InsertRule(i) ==
  /\ i \in DOMAIN procs
  /\ procs[i].pc = "insert"
  /\ store' = InsertRow(store, AdapterRow(procs[i].tenant, procs[i].ptype, procs[i].rule))
  /\ procs' = [procs EXCEPT ![i].pc = "inserted"]
  /\ UNCHANGED <<now, pool, redisUp, adapter, env, limiter, redis, inbox, failures>>
  /\ UNCHANGED cvars
  /\ UNCHANGED qvars

\* adapter.addPolicy has settled: the awaiting enforcer.addPolicy resumes
AfterInsert(i) ==
  /\ i \in DOMAIN procs
  /\ procs[i].pc = "inserted"
  /\ Commit(procs[i].rep, i, RuleInserted(Machine(procs[i].rep, procs[i])))
  /\ UNCHANGED <<now, lastOp, store, redisUp, adapter, env, limiter, redis, inbox, failures>>
  /\ UNCHANGED qvars

\* a query or the connection attempt a handler waits for fails (timeout, connection lost)
StoreFault(i) ==
  /\ i \in DOMAIN procs
  /\ failures < MaxFail
  /\ procs[i].pc \in {"authenticate", "loadPolicies", "loadGrouping", "insert"}
  /\ procs' = [procs EXCEPT ![i].failed = TRUE,
                            ![i].pc = IF procs[i].pc = "insert" THEN "inserted" ELSE "created"]
  /\ failures' = failures + 1
  /\ UNCHANGED <<now, store, pool, redisUp, adapter, env, limiter, redis, inbox>>
  /\ UNCHANGED cvars
  /\ UNCHANGED qvars

\* redisManager.publish('tenant-refresh', message): the broker hands the message
\* to every subscriber connected at that moment; an error is swallowed; then
\* the request answers
Publish(i) ==
  /\ i \in DOMAIN procs
  /\ procs[i].pc = "publish"
  /\ LET r == procs[i].rep
         message == [tenant |-> procs[i].tenant, operation |-> procs[i].kind,
                     serverId |-> PublishedServerId(env[r]), src |-> i]
     IN /\ inbox' = IF redisUp[r]
                      THEN [s \in Replicas |-> IF redisUp[s] THEN Append(inbox[s], message)
                                               ELSE inbox[s]]
                      ELSE inbox
        /\ Commit(r, i, Finish(Machine(r, procs[i])))
  /\ UNCHANGED <<now, lastOp, store, redisUp, adapter, env, limiter, redis, failures>>
  /\ UNCHANGED qvars

\* redisManager.publish fails although isReady() was true: nothing is sent
PublishFails(i) ==
  /\ i \in DOMAIN procs
  /\ failures < MaxFail
  /\ procs[i].pc = "publish"
  /\ redisUp[procs[i].rep]
  /\ Commit(procs[i].rep, i, NotPublished(Machine(procs[i].rep, procs[i])))
  /\ failures' = failures + 1
  /\ UNCHANGED <<now, lastOp, store, redisUp, adapter, env, limiter, redis, inbox>>
  /\ UNCHANGED qvars

\* the subscriber callback runs handleTenantRefresh(data) for the next message
HandleTenantRefresh(r) ==
  /\ inbox[r] # <<>>
  /\ redisUp[r]
  /\ LET data == Head(inbox[r])
         p == [NewProc("redis-refresh", r, data.tenant, "-", <<>>) EXCEPT !.src = data.src]
     IN /\ inbox' = [inbox EXCEPT ![r] = Tail(@)]
        /\ Commit(r, Len(procs) + 1,
                  IF IsOwnMessage(env[r], data.serverId)
                    THEN Respond(Machine(r, p), 0, "ignored")
                    ELSE CreateTenantEnforcer(Machine(r, p), "refresh"))
  /\ UNCHANGED <<now, lastOp, store, redisUp, adapter, env, limiter, redis, failures>>
  /\ UNCHANGED qvars

\* the subscriber's 'error' event: globalIsConnected = false, no reconnect;
\* what the broker had for this replica is lost
RedisError(r) ==
  /\ failures < MaxFail
  /\ redisUp[r]
  /\ redisUp' = [redisUp EXCEPT ![r] = FALSE]
  /\ inbox' = [inbox EXCEPT ![r] = <<>>]
  /\ failures' = failures + 1
  /\ UNCHANGED <<now, store, pool, adapter, env, limiter, redis, procs>>
  /\ UNCHANGED cvars
  /\ UNCHANGED qvars

\* =========================================================================
\* redis.js: the RedisManager singleton of one process
\* =========================================================================
\* the module after require('./redis'): let singletonInstance = null; ... ;
\* clients are the objects redis.createClient has returned, promises the calls
\* of _initialize, calls the calls of initialize(); 0 stands for null
NewRedisModule ==
  [ singletonInstance     |-> 0,
    managers              |-> <<>>,
    got                   |-> <<>>,
    refused               |-> 0,
    exited                |-> FALSE,
    isInitializing        |-> FALSE,
    initializationPromise |-> 0,
    globalPublisher       |-> 0,
    globalSubscriber      |-> 0,
    globalIsConnected     |-> FALSE,
    clients               |-> <<>>,
    promises              |-> <<>>,
    calls                 |-> <<>> ]

\* new RedisManager() called by `by`: throws when singletonInstance is set,
\* else there is one more manager object; the constructor assigns nothing else
Constructor(rd, by) ==
  IF rd.singletonInstance # 0 THEN [rd EXCEPT !.refused = @ + 1]
  ELSE [rd EXCEPT !.managers = Append(@, by)]

\* getRedisManager(): the module after the call; got keeps the instances returned
GetRedisManager(rd) ==
  LET rd1 == IF rd.singletonInstance = 0
               THEN [Constructor(rd, "getRedisManager")
                       EXCEPT !.singletonInstance = Len(rd.managers) + 1]
               ELSE rd
  IN [rd1 EXCEPT !.got = Append(@, rd1.singletonInstance)]

\* cleanup() with no client open: disconnect() runs _cleanup, which sets
\* globalIsConnected = false; then singletonInstance = null
Cleanup_singleton(rd) ==
  IF rd.singletonInstance # 0
    THEN [rd EXCEPT !.globalIsConnected = FALSE, !.singletonInstance = 0]
    ELSE rd

\* redis.createClient({...}): a client that is not open yet
CreateClient(role) == [role |-> role, isOpen |-> FALSE]

\* if (!globalPublisher) { globalPublisher = redis.createClient(...) ... }
CreatePublisher(rd) ==
  IF rd.globalPublisher # 0 THEN rd
  ELSE [rd EXCEPT !.clients = Append(@, CreateClient("publisher")),
                  !.globalPublisher = Len(rd.clients) + 1]

\* if (!globalSubscriber) { globalSubscriber = redis.createClient(...) ... }
CreateSubscriber(rd) ==
  IF rd.globalSubscriber # 0 THEN rd
  ELSE [rd EXCEPT !.clients = Append(@, CreateClient("subscriber")),
                  !.globalSubscriber = Len(rd.clients) + 1]

\* the promise of _initialize settles with the value
Resolve(rd, p, value) == [rd EXCEPT !.promises[p] = [pc |-> "settled", value |-> value]]

\* if (!globalSubscriber.isOpen) await globalSubscriber.connect(); return true
ConnectSubscriber(rd, p) ==
  IF ~rd.clients[rd.globalSubscriber].isOpen
    THEN [rd EXCEPT !.promises[p].pc = "connectSubscriber"]
    ELSE Resolve(rd, p, "true")

\* if (!globalPublisher.isOpen) await globalPublisher.connect(); ...
ConnectPublisher(rd, p) ==
  IF ~rd.clients[rd.globalPublisher].isOpen
    THEN [rd EXCEPT !.promises[p].pc = "connectPublisher"]
    ELSE ConnectSubscriber(rd, p)

\* _cleanup, its end: globalIsConnected = false; then _initialize returns false
CleanupEnd(rd, p) == Resolve([rd EXCEPT !.globalIsConnected = FALSE], p, "false")

\* _cleanup: if (globalPublisher && globalPublisher.isOpen) await globalPublisher.disconnect()
CleanupPublisher(rd, p) ==
  IF rd.globalPublisher # 0 /\ rd.clients[rd.globalPublisher].isOpen
    THEN [rd EXCEPT !.promises[p].pc = "disconnectPublisher"]
    ELSE CleanupEnd(rd, p)

\* _cleanup: if (globalSubscriber && globalSubscriber.isOpen) await globalSubscriber.disconnect()
CleanupSubscriber(rd, p) ==
  IF rd.globalSubscriber # 0 /\ rd.clients[rd.globalSubscriber].isOpen
    THEN [rd EXCEPT !.promises[p].pc = "disconnectSubscriber"]
    ELSE CleanupPublisher(rd, p)

\* catch (error) in _initialize: globalIsConnected = false; await this._cleanup()
InitializeFailed(rd, p) == CleanupSubscriber([rd EXCEPT !.globalIsConnected = FALSE], p)

\* this._initialize() up to its first await
StartInitialize(rd) ==
  LET p == Len(rd.promises) + 1
      rd1 == CreateSubscriber(CreatePublisher(rd))
  IN ConnectPublisher([rd1 EXCEPT !.promises = Append(@, [pc |-> "new", value |-> "pending"]),
                                  !.initializationPromise = p], p)

\* the _initialize calls that have not settled
InFlight(rd) == {p \in DOMAIN rd.promises : rd.promises[p].pc # "settled"}

\* a call of initialize() that starts no initialization of its own
NewCall(rd, pc, promise, result) ==
  [pc |-> pc, promise |-> promise, during |-> InFlight(rd), started |-> FALSE, result |-> result]

\* initialize() without its first test
InitializationInProgress_never(rd) == FALSE

\* if (isInitializing)
InitializationInProgress(rd) == rd.isInitializing

\* initialize() up to its return or its await
Initialize(rd) ==
  IF InitializationInProgress(rd)
    THEN [rd EXCEPT !.calls = Append(@, NewCall(rd, "returned", rd.initializationPromise, "pending"))]
  ELSE IF rd.globalIsConnected
    THEN [rd EXCEPT !.calls = Append(@, NewCall(rd, "done", 0, "true"))]
  ELSE LET call == [NewCall(rd, "awaiting", Len(rd.promises) + 1, "pending")
                      EXCEPT !.started = TRUE]
       IN StartInitialize([rd EXCEPT !.isInitializing = TRUE, !.calls = Append(@, call)])

\* how many calls of getRedisManager and of the constructor have been made
ManagerCalls(rd) == Len(rd.got) + Len(SelectSeq(rd.managers, LAMBDA by : by = "new")) + rd.refused

\* some code of the process calls getRedisManager()
CallGetRedisManager ==
  /\ ~redis.exited
  /\ ManagerCalls(redis) < MaxManagerCalls
  /\ redis' = GetRedisManager(redis)
  /\ UNCHANGED <<now, store, pool, redisUp, adapter, env, limiter, inbox, procs, failures>>
  /\ UNCHANGED cvars
  /\ UNCHANGED qvars

\* some code of the process evaluates new RedisManager()
CallConstructor ==
  /\ ~redis.exited
  /\ ManagerCalls(redis) < MaxManagerCalls
  /\ redis' = Constructor(redis, "new")
  /\ UNCHANGED <<now, store, pool, redisUp, adapter, env, limiter, inbox, procs, failures>>
  /\ UNCHANGED cvars
  /\ UNCHANGED qvars

\* SIGINT or SIGTERM: await cleanup(); process.exit(0)
Signal ==
  /\ ~redis.exited
  /\ redis' = [Cleanup_singleton(redis) EXCEPT !.exited = TRUE]
  /\ UNCHANGED <<now, store, pool, redisUp, adapter, env, limiter, inbox, procs, failures>>
  /\ UNCHANGED cvars
  /\ UNCHANGED qvars

\* some code of the process calls redisManager.initialize()
CallInitialize ==
  /\ Len(redis.calls) < MaxInitCalls
  /\ redis' = Initialize(redis)
  /\ UNCHANGED <<now, store, pool, redisUp, adapter, env, limiter, inbox, procs, failures>>
  /\ UNCHANGED cvars
  /\ UNCHANGED qvars

\* client.connect() settles: on success the client is open and its 'ready'
\* handler has set globalIsConnected = true; on failure _initialize catches
ConnectSettles(p, ok) ==
  /\ p \in DOMAIN redis.promises
  /\ redis.promises[p].pc \in {"connectPublisher", "connectSubscriber"}
  /\ LET publisher == redis.promises[p].pc = "connectPublisher"
         k == IF publisher THEN redis.globalPublisher ELSE redis.globalSubscriber
         opened == [redis EXCEPT !.clients[k].isOpen = TRUE, !.globalIsConnected = TRUE]
     IN redis' = IF ~ok THEN InitializeFailed(redis, p)
                 ELSE IF publisher THEN ConnectSubscriber(opened, p)
                 ELSE Resolve(opened, p, "true")
  /\ UNCHANGED <<now, store, pool, redisUp, adapter, env, limiter, inbox, procs, failures>>
  /\ UNCHANGED cvars
  /\ UNCHANGED qvars

\* client.disconnect() settles inside _cleanup: on success the variable is set
\* to null and _cleanup goes on; on failure _cleanup catches and returns
DisconnectSettles(p, ok) ==
  /\ p \in DOMAIN redis.promises
  /\ redis.promises[p].pc \in {"disconnectPublisher", "disconnectSubscriber"}
  /\ LET publisher == redis.promises[p].pc = "disconnectPublisher"
     IN redis' =
          IF ~ok THEN Resolve(redis, p, "false")
          ELSE IF publisher
            THEN CleanupEnd([redis EXCEPT !.clients[redis.globalPublisher].isOpen = FALSE,
                                          !.globalPublisher = 0], p)
          ELSE CleanupPublisher([redis EXCEPT !.clients[redis.globalSubscriber].isOpen = FALSE,
                                              !.globalSubscriber = 0], p)
  /\ UNCHANGED <<now, store, pool, redisUp, adapter, env, limiter, inbox, procs, failures>>
  /\ UNCHANGED cvars
  /\ UNCHANGED qvars

\* the caller of initialize() resumes with the settled promise's value; the
\* call that started the initialization runs finally { isInitializing = false }
CallResumes(c) ==
  /\ c \in DOMAIN redis.calls
  /\ redis.calls[c].pc \in {"awaiting", "returned"}
  /\ redis.promises[redis.calls[c].promise].pc = "settled"
  /\ redis' = [redis EXCEPT
                 !.calls[c].pc = "done",
                 !.calls[c].result = redis.promises[redis.calls[c].promise].value,
                 !.isInitializing = IF redis.calls[c].pc = "awaiting" THEN FALSE ELSE @]
  /\ UNCHANGED <<now, store, pool, redisUp, adapter, env, limiter, inbox, procs, failures>>
  /\ UNCHANGED cvars
  /\ UNCHANGED qvars

\* an open client emits 'error' (the connection is lost): globalIsConnected =
\* false, and with reconnectStrategy: false the client stays closed
ClientError(k) ==
  /\ failures < MaxFail
  /\ k \in DOMAIN redis.clients
  /\ redis.clients[k].isOpen
  /\ redis' = [redis EXCEPT !.clients[k].isOpen = FALSE, !.globalIsConnected = FALSE]
  /\ failures' = failures + 1
  /\ UNCHANGED <<now, store, pool, redisUp, adapter, env, limiter, inbox, procs>>
  /\ UNCHANGED cvars
  /\ UNCHANGED qvars

\* =========================================================================
\* rateLimit: the sliding-window middleware
\* =========================================================================
\* req.ip of the requests, "" when the request has none
RequestIps == {"10.0.0.1", ""}

\* const clientId = req.ip || 'unknown'
ClientId(ip) == IF ip = "" THEN "unknown" ELSE ip

\* rateLimit(windowMs, maxRequests): const requests = new Map(); admitted keeps,
\* for the properties, the time of every request passed to next(), answer the
\* last request's outcome
RateLimit(windowMs, maxRequests) ==
  [ windowMs    |-> windowMs,
    maxRequests |-> maxRequests,
    requests    |-> EmptyMap,
    admitted    |-> EmptyMap,
    answer      |-> [clientId |-> None, status |-> 0, retryAfter |-> 0] ]

\* requests.get(clientId).filter(timestamp => timestamp > windowStart), or []
CleanOldEntries(l, clientId, t) ==
  IF clientId \in DOMAIN l.requests
    THEN SelectSeq(l.requests[clientId], LAMBDA timestamp : timestamp > t - l.windowMs)
    ELSE <<>>

\* Math.ceil(windowMs / 1000)
RetryAfter(windowMs) == (windowMs + 999) \div 1000

\* a limiter that lets one request too many through
RateLimited_gt(l, clientRequests) == Len(clientRequests) > l.maxRequests

\* if (clientRequests.length >= maxRequests)
RateLimited(l, clientRequests) == Len(clientRequests) >= l.maxRequests

\* the middleware function for a request of the client at time t
RateLimitRequest(l, ip, t) ==
  LET clientId == ClientId(ip)
      clientRequests == CleanOldEntries(l, clientId, t)
      l1 == [l EXCEPT !.requests = MapPut(@, clientId, clientRequests)]
  IN IF RateLimited(l1, clientRequests)
       THEN [l1 EXCEPT !.answer = [clientId |-> clientId, status |-> 429,
                                   retryAfter |-> RetryAfter(l.windowMs)]]
       ELSE [l1 EXCEPT !.requests = MapPut(@, clientId, Append(clientRequests, t)),
                       !.admitted = MapPut(@, clientId,
                                           Append(IF clientId \in DOMAIN l.admitted
                                                    THEN l.admitted[clientId] ELSE <<>>, t)),
                       !.answer = [clientId |-> clientId, status |-> 200, retryAfter |-> 0]]

\* a request arrives at the middleware
RateRequest(ip) ==
  /\ limiter' = RateLimitRequest(limiter, ip, now)
  /\ UNCHANGED <<now, store, pool, redisUp, env, inbox, procs, failures, redis, adapter>>
  /\ UNCHANGED cvars
  /\ UNCHANGED qvars

\* a millisecond passes
RateTick ==
  /\ now < MaxRateNow
  /\ now' = now + 1
  /\ UNCHANGED svars
  /\ UNCHANGED cvars
  /\ UNCHANGED qvars

\* =========================================================================
\* TenantAwareAdapter called directly (every operation, every argument)
\* =========================================================================
\* the column that carries the tenant: v3 of a 'p' row, v2 of a 'g' row
TenantField(row) == IF row.ptype = "p" THEN row.v3 ELSE row.v2

\* the rows a table can hold here: the rules of both tenants, as the handlers
\* store them (v4 NULL) and as savePolicy stores them (tenant appended)
AdapterRows ==
  {Row("p", "admin", "doc1", "read", t, v4) : t \in Tenants, v4 \in Tenants \cup {Null}}
    \cup {Row("g", "alice", "admin", t, Null, Null) : t \in Tenants}

\* the tables before the first call: each tenant has its rules or has none
AdapterTables ==
  { [row \in AdapterRows |-> IF row.v4 = Null /\ TenantField(row) \in have THEN 1 ELSE 0] :
      have \in SUBSET Tenants }

\* this.tenant after the constructor, and the values setTenant is called with
AdapterTenants == {Null, ""} \cup Tenants

\* new TenantAwareAdapter(sequelize): this.tenant = null; model is the casbin
\* model the caller holds, call the last operation and what came of it
NewTenantAwareAdapter ==
  [ tenant |-> Null,
    model  |-> [p |-> {}, g |-> {}],
    call   |-> [op |-> "none", error |-> Null, queries |-> 0] ]

\* the rule kinds and the rule and filter arguments the operations are called with
AdapterPTypes == {"p", "g"}
AdapterRules(ptype) ==
  IF ptype = "p"
    THEN {<<"admin", "doc1", "read">>}
           \cup {<<"admin", "doc1", "read", t>> : t \in Tenants}
           \cup {<<"admin", "doc1", "read", t, u>> : t \in Tenants, u \in Tenants}
    ELSE {<<"alice", "admin">>} \cup {<<"alice", "admin", t>> : t \in Tenants}
FieldIndexes == {0, 2, 3}
FieldValueLists ==
  {<<>>, <<"admin">>, <<"alice">>, <<Null, "doc1">>} \cup {<<t>> : t \in Tenants}

\* an adapter that takes any value of this.tenant
TenantUnset_never(tenant) == FALSE

\* if (!this.tenant)
TenantUnset(tenant) == tenant \in {Null, ""}

\* throw new Error('Tenant must be set before ...'): no query has been issued
TenantNotSet(a, op) ==
  [a EXCEPT !.call = [op |-> op, error |-> "Tenant must be set", queries |-> 0]]

\* the operation has run its queries and returned
Returned(a, op, queries) ==
  [a EXCEPT !.call = [op |-> op, error |-> Null, queries |-> queries]]

\* column = ? in a WHERE clause: never true when either side is NULL
SqlEq(column, value) == column # Null /\ value # Null /\ column = value

\* DELETE FROM casbin_rule WHERE ...: the matching rows are gone
DeleteRows(st, rows) == [row \in DOMAIN st |-> IF row \in rows THEN 0 ELSE st[row]]

\* column v<k> of a row
Column(row, k) ==
  CASE k = 0 -> row.v0 [] k = 1 -> row.v1 [] k = 2 -> row.v2 [] k = 3 -> row.v3
    [] OTHER -> row.v4

\* removePolicy: WHERE ptype = ? AND v0 = ? AND v1 = ? AND v2 = ? AND v3 = ? AND v4 = ?
\* with the rule's values, null where the rule is shorter, and the tenant put in
RemovePolicyRows(st, tenant, ptype, rule) ==
  LET w == AdapterRow(tenant, ptype, rule)
  IN { row \in DOMAIN st :
         /\ row.ptype = ptype
         /\ \A k \in 0..4 : SqlEq(Column(row, k), Column(w, k)) }

\* a removeFilteredPolicy whose WHERE clause has no tenant condition
RemoveFilteredRows_noTenant(st, tenant, ptype, fieldIndex, fieldValues) ==
  { row \in DOMAIN st :
      /\ row.ptype = ptype
      /\ \A i \in 1..Len(fieldValues) :
            fieldValues[i] # Null => SqlEq(Column(row, fieldIndex + i - 1), fieldValues[i]) }

\* removeFilteredPolicy: WHERE ptype = ? [AND v<fieldIndex + i> = ?]... AND v3 = ? / AND v2 = ?
RemoveFilteredRows(st, tenant, ptype, fieldIndex, fieldValues) ==
  { row \in DOMAIN st :
      /\ row.ptype = ptype
      /\ \A i \in 1..Len(fieldValues) :
            fieldValues[i] # Null => SqlEq(Column(row, fieldIndex + i - 1), fieldValues[i])
      /\ ptype = "p" => SqlEq(row.v3, tenant)
      /\ ptype = "g" => SqlEq(row.v2, tenant) }

\* savePolicy: WHERE (ptype = 'p' AND v3 = ?) OR (ptype = 'g' AND v2 = ?)
SavePolicyDeletes(st, tenant) ==
  { row \in DOMAIN st :
      \/ row.ptype = "p" /\ SqlEq(row.v3, tenant)
      \/ row.ptype = "g" /\ SqlEq(row.v2, tenant) }

\* savePolicy: the rule it hands to this.addPolicy for a rule of the model
SavedPolicy(policy, tenant) == policy \o <<tenant>>
SavedGroupingPolicy(policy, tenant) == SubSeq(policy, 1, 2) \o <<tenant>>

\* savePolicy(model): the table after the DELETE and the INSERT of every rule
SavePolicy(st, tenant, model) ==
  LET cleared == DeleteRows(st, SavePolicyDeletes(st, tenant))
  IN [ row \in DOMAIN st |->
         cleared[row]
           + Cardinality({policy \in model.p :
                            AdapterRow(tenant, "p", SavedPolicy(policy, tenant)) = row})
           + Cardinality({policy \in model.g :
                            AdapterRow(tenant, "g", SavedGroupingPolicy(policy, tenant)) = row}) ]

\* adapter.setTenant(tenant)
SetTenant(tenant) ==
  /\ adapter' = [adapter EXCEPT !.tenant = tenant,
                                !.call = [op |-> "setTenant", error |-> Null, queries |-> 0]]
  /\ UNCHANGED <<now, store, pool, redisUp, env, limiter, inbox, procs, failures, redis>>
  /\ UNCHANGED cvars
  /\ UNCHANGED qvars

\* adapter.loadPolicy(model) with a new model
AdapterLoadPolicy ==
  /\ adapter' =
       IF TenantUnset(adapter.tenant) THEN TenantNotSet(adapter, "loadPolicy")
       ELSE LET e == LoadedEnforcer(adapter.tenant, SelectPolicies(store, adapter.tenant),
                                    SelectGroupingPolicies(store, adapter.tenant))
            IN [Returned(adapter, "loadPolicy", 2) EXCEPT !.model = [p |-> e.p, g |-> e.g]]
  /\ UNCHANGED <<now, store, pool, redisUp, env, limiter, inbox, procs, failures, redis>>
  /\ UNCHANGED cvars
  /\ UNCHANGED qvars

\* adapter.savePolicy(model) with the model the caller holds
AdapterSavePolicy ==
  /\ IF TenantUnset(adapter.tenant)
       THEN /\ adapter' = TenantNotSet(adapter, "savePolicy")
            /\ store' = store
       ELSE /\ adapter' = Returned(adapter, "savePolicy",
                                   1 + Cardinality(adapter.model.p) + Cardinality(adapter.model.g))
            /\ store' = SavePolicy(store, adapter.tenant, adapter.model)
  /\ \A row \in DOMAIN store : store'[row] <= MaxCopies
  /\ UNCHANGED <<now, pool, redisUp, env, limiter, inbox, procs, failures, redis>>
  /\ UNCHANGED cvars
  /\ UNCHANGED qvars

\* adapter.addPolicy(sec, ptype, rule)
AdapterAddPolicy(ptype, rule) ==
  /\ IF TenantUnset(adapter.tenant)
       THEN /\ adapter' = TenantNotSet(adapter, "addPolicy")
            /\ store' = store
       ELSE /\ adapter' = Returned(adapter, "addPolicy", 1)
            /\ AdapterRow(adapter.tenant, ptype, rule) \in DOMAIN store
            /\ store' = InsertRow(store, AdapterRow(adapter.tenant, ptype, rule))
  /\ \A row \in DOMAIN store : store'[row] <= MaxCopies
  /\ UNCHANGED <<now, pool, redisUp, env, limiter, inbox, procs, failures, redis>>
  /\ UNCHANGED cvars
  /\ UNCHANGED qvars

\* adapter.removePolicy(sec, ptype, rule)
AdapterRemovePolicy(ptype, rule) ==
  /\ IF TenantUnset(adapter.tenant)
       THEN /\ adapter' = TenantNotSet(adapter, "removePolicy")
            /\ store' = store
       ELSE /\ adapter' = Returned(adapter, "removePolicy", 1)
            /\ store' = DeleteRows(store, RemovePolicyRows(store, adapter.tenant, ptype, rule))
  /\ UNCHANGED <<now, pool, redisUp, env, limiter, inbox, procs, failures, redis>>
  /\ UNCHANGED cvars
  /\ UNCHANGED qvars

\* adapter.removeFilteredPolicy(sec, ptype, fieldIndex, ...fieldValues)
AdapterRemoveFilteredPolicy(ptype, fieldIndex, fieldValues) ==
  /\ IF TenantUnset(adapter.tenant)
       THEN /\ adapter' = TenantNotSet(adapter, "removeFilteredPolicy")
            /\ store' = store
       ELSE /\ adapter' = Returned(adapter, "removeFilteredPolicy", 1)
            /\ store' = DeleteRows(store, RemoveFilteredRows(store, adapter.tenant, ptype,
                                                             fieldIndex, fieldValues))
  /\ UNCHANGED <<now, pool, redisUp, env, limiter, inbox, procs, failures, redis>>
  /\ UNCHANGED cvars
  /\ UNCHANGED qvars

\* the replicas and the store at start
SysStart(envs) ==
  /\ store = [row \in AllRows |-> IF row \in InitialRows THEN 1 ELSE 0]
  /\ pool = [r \in Replicas |-> NewSharedConnectionPool]
  /\ redisUp = [r \in Replicas |-> TRUE]
  /\ env \in envs
  /\ inbox = [r \in Replicas |-> <<>>]
  /\ procs = <<>>
  /\ failures = 0
  /\ redis = NewRedisModule
  /\ adapter = NewTenantAwareAdapter
  /\ limiter = RateLimit(60000, 100)

\* =========================================================================
\* Specifications
\* =========================================================================
QueueInit ==
  /\ now = 0
  /\ QueueStart(1..MaxConcurrentChoice, 0..MaxQueueChoice)
  /\ CacheStart({SysMaxSize})
  /\ SysStart({CHOOSE e \in EnvChoices : TRUE})

QueueNext ==
  \/ AddRejected
  \/ AddAccepted
  \/ \E i \in Tasks, ok \in BOOLEAN : TaskSettles(i, ok)
  \/ RunImmediate
  \/ QueueTick

QueueSpec == QueueInit /\ [][QueueNext]_vars

\* the queue when every task() that was started settles and the event loop
\* runs every setImmediate callback
QueueLiveSpec ==
  /\ QueueInit
  /\ [][QueueNext]_vars
  /\ \A i \in Tasks : WF_vars(\E ok \in BOOLEAN : TaskSettles(i, ok))
  /\ WF_vars(RunImmediate)

CacheInit ==
  /\ now = 0
  /\ CacheStart(1..MaxCacheSize)
  /\ QueueStart({1}, {1})
  /\ SysStart({CHOOSE e \in EnvChoices : TRUE})

CacheNext ==
  \/ \E tenant \in CacheTenants : CallGet("rA", tenant)
  \/ \E tenant \in CacheTenants : CallSet("rA", tenant)
  \/ \E tenant \in CacheTenants : CallDelete("rA", tenant)
  \/ CacheTick

CacheSpec == CacheInit /\ [][CacheNext]_vars

Init ==
  /\ now = 0
  /\ CacheStart({SysMaxSize})
  /\ QueueStart({1}, {1})
  /\ SysStart(EnvChoices)

Next ==
  \/ \E r \in Replicas, b \in PermissionBodies : StartAddPermission(r, b)
  \/ \E r \in Replicas, b \in AssignBodies : StartAssignUser(r, b)
  \/ \E r \in Replicas, b \in CheckBodies : StartCheckAccess(r, b)
  \/ \E r \in Replicas, b \in RefreshBodies : StartRefreshTenant(r, b)
  \/ \E i \in ProcIds : DuplicateCheckQuery(i)
  \/ \E i \in ProcIds : AfterDuplicateCheck(i)
  \/ \E i \in ProcIds : Authenticated(i)
  \/ \E i \in ProcIds : LoadPolicies(i)
  \/ \E i \in ProcIds : LoadGrouping(i)
  \/ \E i \in ProcIds : EnforcerSettled(i)
  \/ \E i \in ProcIds : InsertRule(i)
  \/ \E i \in ProcIds : AfterInsert(i)
  \/ \E i \in ProcIds : Publish(i)
  \/ \E r \in Replicas : HandleTenantRefresh(r)

Spec == Init /\ [][Next]_vars

\* the same system, each replica with its own SERVER_ID, the clients talking to
\* replica rA only, with up to MaxFail store or broker faults
FaultInit ==
  /\ now = 0
  /\ CacheStart({SysMaxSize})
  /\ QueueStart({1}, {1})
  /\ SysStart({e \in EnvChoices : \A r \in Replicas : e[r].SERVER_ID # Null})

FaultNext ==
  \/ \E b \in PermissionBodies : StartAddPermission("rA", b)
  \/ \E b \in AssignBodies : StartAssignUser("rA", b)
  \/ \E b \in CheckBodies : StartCheckAccess("rA", b)
  \/ \E b \in RefreshBodies : StartRefreshTenant("rA", b)
  \/ \E b \in CheckBodies : CallCheckAccess("rA", b)
  \/ \E i \in ProcIds : DuplicateCheckQuery(i)
  \/ \E i \in ProcIds : AfterDuplicateCheck(i)
  \/ \E i \in ProcIds : Authenticated(i)
  \/ \E i \in ProcIds : LoadPolicies(i)
  \/ \E i \in ProcIds : LoadGrouping(i)
  \/ \E i \in ProcIds : EnforcerSettled(i)
  \/ \E i \in ProcIds : InsertRule(i)
  \/ \E i \in ProcIds : AfterInsert(i)
  \/ \E i \in ProcIds : Publish(i)
  \/ \E r \in Replicas : HandleTenantRefresh(r)
  \/ \E i \in ProcIds : StoreFault(i)
  \/ \E i \in ProcIds : PublishFails(i)
  \/ \E r \in Replicas : RedisError(r)

FaultSpec == FaultInit /\ [][FaultNext]_vars

\* the invalidation bus alone: manual refreshes on either replica, their
\* publications and the peers' handlers, for every way the processes are started
BusInit ==
  /\ now = 0
  /\ CacheStart({SysMaxSize})
  /\ QueueStart({1}, {1})
  /\ SysStart(BusEnvChoices)

BusNext ==
  \/ \E r \in Replicas, b \in RefreshBodies : StartRefreshTenant(r, b)
  \/ \E i \in ProcIds : Authenticated(i)
  \/ \E i \in ProcIds : LoadPolicies(i)
  \/ \E i \in ProcIds : LoadGrouping(i)
  \/ \E i \in ProcIds : EnforcerSettled(i)
  \/ \E i \in ProcIds : Publish(i)
  \/ \E r \in Replicas : HandleTenantRefresh(r)

BusSpec == BusInit /\ [][BusNext]_vars

\* POST /create-group alone: the same request sent up to MaxReq times, to either
\* replica, one after the other or overlapping
GroupInit ==
  /\ now = 0
  /\ CacheStart({SysMaxSize})
  /\ QueueStart({1}, {1})
  /\ SysStart({e \in EnvChoices : \A r \in Replicas : e[r].SERVER_ID # Null})

GroupNext ==
  \/ \E r \in Replicas, b \in GroupBodies : StartCreateGroup(r, b)
  \/ \E i \in ProcIds : DuplicateCheckQuery(i)
  \/ \E i \in ProcIds : AfterDuplicateCheck(i)
  \/ \E i \in ProcIds : Authenticated(i)
  \/ \E i \in ProcIds : LoadPolicies(i)
  \/ \E i \in ProcIds : LoadGrouping(i)
  \/ \E i \in ProcIds : EnforcerSettled(i)
  \/ \E i \in ProcIds : Publish(i)
  \/ \E r \in Replicas : HandleTenantRefresh(r)

GroupSpec == GroupInit /\ [][GroupNext]_vars

\* a TenantAwareAdapter alone, on a table that holds rules of both tenants:
\* setTenant and the five operations in any order, with every argument
AdapterInit ==
  /\ now = 0
  /\ CacheStart({SysMaxSize})
  /\ QueueStart({1}, {1})
  /\ store \in AdapterTables
  /\ pool = [r \in Replicas |-> NewSharedConnectionPool]
  /\ redisUp = [r \in Replicas |-> TRUE]
  /\ env = CHOOSE e \in EnvChoices : TRUE
  /\ inbox = [r \in Replicas |-> <<>>]
  /\ procs = <<>>
  /\ failures = 0
  /\ redis = NewRedisModule
  /\ adapter = NewTenantAwareAdapter
  /\ limiter = RateLimit(60000, 100)

AdapterNext ==
  \/ \E tenant \in AdapterTenants : SetTenant(tenant)
  \/ AdapterLoadPolicy
  \/ AdapterSavePolicy
  \/ \E ptype \in AdapterPTypes : \E rule \in AdapterRules(ptype) : AdapterAddPolicy(ptype, rule)
  \/ \E ptype \in AdapterPTypes : \E rule \in AdapterRules(ptype) : AdapterRemovePolicy(ptype, rule)
  \/ \E ptype \in AdapterPTypes, fieldIndex \in FieldIndexes, fieldValues \in FieldValueLists :
        AdapterRemoveFilteredPolicy(ptype, fieldIndex, fieldValues)

AdapterSpec == AdapterInit /\ [][AdapterNext]_vars

\* access checks for more tenants than the cache has room for, on caches of
\* 1..MaxCacheSize entries, while time passes
TenantInit ==
  /\ now = 0
  /\ CacheStart(1..MaxCacheSize)
  /\ QueueStart({1}, {1})
  /\ SysStart({CHOOSE e \in EnvChoices : TRUE})

TenantNext ==
  \/ \E r \in Replicas, b \in CheckBodies : StartCheckAccess(r, b)
  \/ \E i \in ProcIds : Authenticated(i)
  \/ \E i \in ProcIds : LoadPolicies(i)
  \/ \E i \in ProcIds : LoadGrouping(i)
  \/ \E i \in ProcIds : EnforcerSettled(i)
  \/ CacheTick

TenantSpec == TenantInit /\ [][TenantNext]_vars

\* writes and access checks on one replica whose cache has room for
\* 1..MaxCacheSize of the two tenants, while time passes; the peer refreshes;
\* the table holds rules of both tenants at the start
PressureRows == InitialRows \cup {Row("g", "alice", "admin", "t1", Null, Null)}

PressureInit ==
  /\ now = 0
  /\ CacheStart(1..MaxCacheSize)
  /\ QueueStart({1}, {1})
  /\ store = [row \in AllRows |-> IF row \in PressureRows THEN 1 ELSE 0]
  /\ pool = [r \in Replicas |-> NewSharedConnectionPool]
  /\ redisUp = [r \in Replicas |-> TRUE]
  /\ env = CHOOSE e \in EnvChoices : \A r \in Replicas : e[r].SERVER_ID # Null
  /\ inbox = [r \in Replicas |-> <<>>]
  /\ procs = <<>>
  /\ failures = 0
  /\ redis = NewRedisModule
  /\ adapter = NewTenantAwareAdapter
  /\ limiter = RateLimit(60000, 100)

PressureNext ==
  \/ \E b \in PermissionBodies : StartAddPermission("rA", b)
  \/ \E b \in CheckBodies : StartCheckAccess("rA", b)
  \/ \E i \in ProcIds : DuplicateCheckQuery(i)
  \/ \E i \in ProcIds : AfterDuplicateCheck(i)
  \/ \E i \in ProcIds : Authenticated(i)
  \/ \E i \in ProcIds : LoadPolicies(i)
  \/ \E i \in ProcIds : LoadGrouping(i)
  \/ \E i \in ProcIds : EnforcerSettled(i)
  \/ \E i \in ProcIds : InsertRule(i)
  \/ \E i \in ProcIds : AfterInsert(i)
  \/ \E i \in ProcIds : Publish(i)
  \/ \E r \in Replicas : HandleTenantRefresh(r)
  \/ CacheTick

PressureSpec == PressureInit /\ [][PressureNext]_vars

\* the rows written so far by other processes, in the order of their commits
CommitLog == IF "log" \in DOMAIN lastOp THEN lastOp.log ELSE <<>>

\* another process's write handler executes its INSERT (adapter.addPolicy)
WriteCommitted(ptype, tenant, rule) ==
  LET row == AdapterRow(tenant, ptype, rule) IN
    /\ store[row] = 0
    /\ store' = InsertRow(store, row)
    /\ lastOp' = [op |-> "commit", log |-> Append(CommitLog, row)]
    /\ UNCHANGED <<now, tc, heap, pool, redisUp, adapter, env, limiter, redis, inbox, procs, failures>>
    /\ UNCHANGED qvars

\* access checks that load tenants on one replica while writes of other
\* processes to the same table are committed
SnapshotNext ==
  \/ \E b \in CheckBodies : StartCheckAccess("rA", b)
  \/ \E i \in ProcIds : Authenticated(i)
  \/ \E i \in ProcIds : LoadPolicies(i)
  \/ \E i \in ProcIds : LoadGrouping(i)
  \/ \E i \in ProcIds : EnforcerSettled(i)
  \/ \E b \in PermissionBodies : WriteCommitted("p", b.tenant, PermissionRule(b))
  \/ \E b \in AssignBodies : WriteCommitted("g", b.tenant, AssignRule(b))

SnapshotSpec == Init /\ [][SnapshotNext]_vars

\* the rateLimit middleware alone: requests of two clients at any millisecond,
\* for every window of 1..MaxWindowMs ms and ceiling of 1..MaxRateRequests
RateInit ==
  /\ now = 0
  /\ CacheStart({SysMaxSize})
  /\ QueueStart({1}, {1})
  /\ store = [row \in AllRows |-> IF row \in InitialRows THEN 1 ELSE 0]
  /\ pool = [r \in Replicas |-> NewSharedConnectionPool]
  /\ redisUp = [r \in Replicas |-> TRUE]
  /\ env = CHOOSE e \in EnvChoices : TRUE
  /\ inbox = [r \in Replicas |-> <<>>]
  /\ procs = <<>>
  /\ failures = 0
  /\ redis = NewRedisModule
  /\ adapter = NewTenantAwareAdapter
  /\ \E windowMs \in 1..MaxWindowMs, maxRequests \in 1..MaxRateRequests :
       limiter = RateLimit(windowMs, maxRequests)

RateNext ==
  \/ \E ip \in RequestIps : RateRequest(ip)
  \/ RateTick

RateSpec == RateInit /\ [][RateNext]_vars

\* redis.js alone: up to MaxInitCalls calls of initialize() from any code of the
\* process, connects and disconnects that succeed or fail, lost connections
RedisInit ==
  /\ now = 0
  /\ CacheStart({SysMaxSize})
  /\ QueueStart({1}, {1})
  /\ SysStart({CHOOSE e \in EnvChoices : TRUE})

RedisClientIds == 1..(2 * MaxInitCalls)

RedisNext ==
  \/ CallInitialize
  \/ \E p \in 1..MaxInitCalls, ok \in BOOLEAN : ConnectSettles(p, ok)
  \/ \E p \in 1..MaxInitCalls, ok \in BOOLEAN : DisconnectSettles(p, ok)
  \/ \E c \in 1..MaxInitCalls : CallResumes(c)
  \/ \E k \in RedisClientIds : ClientError(k)

RedisSpec == RedisInit /\ [][RedisNext]_vars

\* redis.js as a module: its two exports called in any order, and the signals
SingletonNext ==
  \/ CallGetRedisManager
  \/ CallConstructor
  \/ Signal

SingletonSpec == RedisInit /\ [][SingletonNext]_vars

\* =========================================================================
\* Properties
\* =========================================================================
\* ---------------------------------------------------------- queue properties
TasksIn(st) == {i \in Tasks : taskState[i] = st}
RejectedTasks == {i \in Tasks : taskOut[i] = <<QueueFullError>>}

\* no task() of the first three submissions has finished yet
ThreeLongRunning ==
  /\ rq.maxQueueSize = 1
  /\ rq.maxConcurrent = 1
  /\ submitted = 3
  /\ \A i \in 1..3 : taskOut[i] \in {<<>>, <<QueueFullError>>}

\* C9: the number of running tasks never exceeds maxConcurrent and the waiting
\* queue never holds more than maxQueueSize entries; with maxQueueSize = 1,
\* maxConcurrent = 1 and three submissions none of which has finished, exactly
\* one task runs, at most one waits and every other one was rejected QueueFull.
C9_QueueBounds ==
  /\ rq.running <= rq.maxConcurrent
  /\ rq.running = Cardinality(TasksIn("running"))
  /\ Len(rq.queue) <= rq.maxQueueSize
  /\ {rq.queue[k].task : k \in 1..Len(rq.queue)} = TasksIn("queued")
  /\ ThreeLongRunning =>
        /\ Cardinality(TasksIn("running")) = 1
        /\ Cardinality(TasksIn("queued")) <= 1
        /\ RejectedTasks = (1..3) \ (TasksIn("running") \cup TasksIn("queued"))
        /\ RejectedTasks # {}

C9_Witness ==
  /\ ThreeLongRunning
  /\ Cardinality(RejectedTasks) = 1
  /\ rq.running = 1
  /\ Len(rq.queue) = 1

\* C10: every submission gets exactly one outcome. It is QueueFull exactly when
\* the waiting queue already held maxQueueSize entries at submission, and that
\* task is never run; any other task is run at most once, its outcome is its own
\* result or its own error, delivered after its single run, and when nothing is
\* running and no dispatch is pending every accepted task has run and settled.
C10_OneOutcome ==
  \A i \in 1..submitted :
    /\ Len(taskOut[i]) <= 1
    /\ taskFull[i] <=> taskOut[i] = <<QueueFullError>>
    /\ taskFull[i] => taskRuns[i] = 0
    /\ ~taskFull[i] =>
          /\ taskRuns[i] <= 1
          /\ taskOut[i] \in {<<>>, <<TaskResult(i)>>, <<TaskError(i)>>}
          /\ taskOut[i] # <<>> => taskRuns[i] = 1
          /\ (rq.running = 0 /\ immediates = 0) =>
                (taskRuns[i] = 1 /\ taskOut[i] # <<>>)

C10_Witness ==
  /\ submitted = MaxTasks
  /\ \E i, j, k \in Tasks :
        /\ taskOut[i] = <<QueueFullError>>
        /\ taskOut[j] = <<TaskResult(j)>>
        /\ taskOut[k] = <<TaskError(k)>>
  /\ rq.running = 0 /\ immediates = 0

\* ---------------------------------------------------------- cache properties
CachedTenants(r) == DOMAIN tc[r].cache

\* C7: whenever a get or set call has returned, the number of cached tenants
\* is at most maxSize.
C7_CacheBound ==
  \A r \in Replicas : Cardinality(CachedTenants(r)) <= tc[r].maxSize

C7_Witness ==
  /\ lastOp.op = "set"
  /\ Cardinality(CachedTenants("rA")) = tc["rA"].maxSize
  /\ tc["rA"].maxSize = MaxCacheSize
  /\ lastOp.tenant = tc["rA"].accessOrder[Len(tc["rA"].accessOrder)]
  /\ \E i \in 1..Len(heap) :
       /\ heap[i].p = {} /\ heap[i].g = {}
       /\ \A t \in CachedTenants("rA") : tc["rA"].cache[t] # i

\* C8: after evictTenant(T) has returned, T is in none of the cache map, the
\* access order and the memory accounting, whether or not the teardown threw,
\* and every other tenant's entry is what it was before the call.
C8_EvictRemoves ==
  [][ lastOp'.op = "delete" =>
        LET r == lastOp'.rep
            t == lastOp'.tenant
        IN /\ t \notin DOMAIN tc'[r].cache
           /\ t \notin DOMAIN tc'[r].memoryUsage
           /\ t \notin Range(tc'[r].accessOrder)
           /\ \A u \in (DOMAIN tc[r].cache) \ {t} :
                /\ u \in DOMAIN tc'[r].cache
                /\ tc'[r].cache[u] = tc[r].cache[u]
                /\ heap'[tc[r].cache[u]] = heap[tc[r].cache[u]]
           /\ \A u \in (DOMAIN tc[r].memoryUsage) \ {t} :
                /\ u \in DOMAIN tc'[r].memoryUsage
                /\ tc'[r].memoryUsage[u] = tc[r].memoryUsage[u]
           /\ tc'[r].accessOrder = FilterOut(tc[r].accessOrder, t)
           /\ DOMAIN tc'[r].cache \subseteq DOMAIN tc[r].cache
           /\ DOMAIN tc'[r].memoryUsage \subseteq DOMAIN tc[r].memoryUsage
    ]_vars

\* an eviction of a cached tenant whose teardown threw, another tenant staying cached
C8_Witness ==
  /\ lastOp.op = "delete"
  /\ lastOp.thr # "ok"
  /\ lastOp.tenant \notin CachedTenants("rA")
  /\ CachedTenants("rA") # {}
  /\ \E i \in 1..Len(heap) :
       /\ heap[i].tenant = lastOp.tenant
       /\ heap[i].p # {}
       /\ \A t \in CachedTenants("rA") : tc["rA"].cache[t] # i

\* --------------------------------------------------------- system properties
Done(i) == procs[i].pc = "done"

Succeeded(i) == Done(i) /\ procs[i].out = [status |-> 200, body |-> "success:true"]

\* the rules of the enforcer cached for tenant t on replica r
CachedRules(r, t) ==
  LET e == heap[tc[r].cache[t]] IN [p |-> e.p, g |-> e.g]

\* the rules a load of tenant t would build from the table as it is now
StoreRules(t) ==
  LET e == LoadedEnforcer(t, SelectPolicies(store, t), SelectGroupingPolicies(store, t))
  IN [p |-> e.p, g |-> e.g]

HasWrittenRule(rules, w) ==
  IF procs[w].ptype = "p" THEN procs[w].rule \in rules.p ELSE procs[w].rule \in rules.g

\* C1: on every replica the instance cached for a tenant holds only permission
\* rules whose tenant field (the 4th) is that tenant and only grouping rules
\* whose tenant field (the 3rd) is that tenant, so no rule of another tenant.
C1_TenantIsolation ==
  \A r \in Replicas : \A t \in CachedTenants(r) :
    /\ \A rule \in CachedRules(r, t).p : rule[Len(rule)] = t /\ Len(rule) = 4
    /\ \A rule \in CachedRules(r, t).g : rule[3] = t

\* both tenants are cached on one replica, each with rules, after a write to t1
\* has been stored, reloaded and answered
C1_Witness ==
  \E r \in Replicas :
    /\ CachedTenants(r) = {"t1", "t2"}
    /\ CachedRules(r, "t1").p # {}
    /\ CachedRules(r, "t2").p # {} /\ CachedRules(r, "t2").g # {}
    /\ \E w \in 1..Len(procs) :
         procs[w].rep = r /\ procs[w].kind = "add-permission" /\ Succeeded(w)

\* the request was told that the rule exists: the 'already exists' error, or,
\* read generously, the answer { success: false } of a write that added nothing
AlreadyExists(i) ==
  Done(i) /\ procs[i].out.body \in {"error:already exists", "success:false"}

\* C2: when the same permission rule or the same assignment has been submitted
\* twice and both requests have been answered, the table holds exactly one
\* matching row and at least one of the two answers is AlreadyExists.
C2_OneRowOneAlreadyExists ==
  \A i, j \in 1..Len(procs) :
    ( /\ i < j
      /\ procs[i].kind \in WriteKinds /\ procs[j].kind = procs[i].kind
      /\ procs[j].rule = procs[i].rule /\ procs[j].tenant = procs[i].tenant
      /\ Done(i) /\ Done(j) )
    => /\ store[AdapterRow(procs[i].tenant, procs[i].ptype, procs[i].rule)] = 1
       /\ AlreadyExists(i) \/ AlreadyExists(j)

\* C3: an access check that started on a replica after a write to the tenant
\* had answered success on that replica is evaluated against rules that include
\* the written rule.
C3_ReadYourWrites ==
  \A i \in 1..Len(procs) :
    (procs[i].kind = "check-access" /\ Done(i)) =>
      \A rules \in procs[i].seen : \A w \in procs[i].after : HasWrittenRule(rules, w)

\* no request or message handler is in progress and no message is undelivered
Quiescent ==
  /\ \A i \in 1..Len(procs) : Done(i)
  /\ \A r \in Replicas : inbox[r] = <<>>

\* replica r has completed a refresh of tenant t
Refreshed(r, t) ==
  \E i \in 1..Len(procs) :
    /\ procs[i].rep = r /\ procs[i].tenant = t /\ Done(i)
    /\ \/ procs[i].kind \in WriteKinds /\ procs[i].out.status = 200
       \/ procs[i].kind = "refresh-tenant" /\ procs[i].out.status = 200
       \/ procs[i].kind = "redis-refresh" /\ procs[i].out.body = "refreshed"

\* C4: when nothing is in progress, the instance cached for a tenant on a
\* replica that has refreshed the tenant holds exactly the rules the table
\* holds for the tenant.
C4_ConvergesToStore ==
  Quiescent =>
    \A r \in Replicas : \A t \in CachedTenants(r) :
      Refreshed(r, t) => CachedRules(r, t) = StoreRules(t)

\* C5: once replica B has refreshed a tenant on the message of a write that
\* answered success on another replica A, the instance B caches for the tenant
\* contains the written rule.
C5_PeerSeesWrite ==
  \A h \in 1..Len(procs) :
    ( /\ procs[h].kind = "redis-refresh" /\ Done(h)
      /\ procs[h].out.body = "refreshed"
      /\ procs[procs[h].src].kind \in WriteKinds
      /\ Succeeded(procs[h].src)
      /\ procs[procs[h].src].rep # procs[h].rep
      /\ procs[h].tenant \in CachedTenants(procs[h].rep) )
    => HasWrittenRule(CachedRules(procs[h].rep, procs[h].tenant), procs[h].src)

\* C6: no step changes the rules of an enforcer that is in a replica's cache
\* when the step begins.
C6_CachedInstanceImmutable ==
  [][ \A r \in Replicas : \A t \in DOMAIN tc[r].cache :
        heap'[tc[r].cache[t]] = heap[tc[r].cache[t]] ]_vars


\* ------------------------------------------------------- failure properties
\* the handler is inside refreshTenantPolicies
InRefresh(i) == i \in DOMAIN procs /\ procs[i].phase = "refresh"

\* the step ends a refresh of handler i whose reload has failed
FailedRefreshEnds(i) ==
  /\ InRefresh(i)
  /\ procs[i].pc = "created"
  /\ procs[i].failed
  /\ procs'[i].pc # "created"

\* C11: the step in which a refresh whose reload has failed returns leaves the
\* replica's cache map, access order and memory accounting (and the enforcers
\* the cache holds) exactly as they were, so the previous entry of the tenant
\* stays in place.
C11_FailedRefreshKeepsCache ==
  [][\A i \in ProcIds : FailedRefreshEnds(i) =>
        /\ tc'[procs[i].rep] = tc[procs[i].rep]
        /\ heap' = heap]_vars

\* a write has answered success although its refresh failed, and the entry its
\* getTenantEnforcer call found or made is still cached
C11_Witness ==
  \E i \in DOMAIN procs :
    /\ procs[i].kind \in WriteKinds
    /\ procs[i].pc = "done"
    /\ procs[i].failed
    /\ procs[i].out = [status |-> 200, body |-> "success:true"]
    /\ procs[i].tenant \in DOMAIN tc[procs[i].rep].cache

\* an access check that missed the cache and whose enforcer creation failed
FailedAccessCheck(i) ==
  /\ procs[i].kind \in AccessKinds
  /\ procs[i].pc = "done"
  /\ procs[i].failed

\* the caller was told "not allowed"
Denied(i) == procs[i].out.body \in {"allowed:false", "false"}

\* C12: an access check for a tenant that is not cached and whose loading
\* fails because the store is unavailable ends with a failure and never with
\* a denied result.
C12_NoDenialFromFailure ==
  \A i \in DOMAIN procs : FailedAccessCheck(i) => ~Denied(i)

\* ----------------------------------------------------------- bus properties
\* the handlers handleTenantRefresh has run
MessageHandlers == {i \in DOMAIN procs : procs[i].kind = "redis-refresh"}

\* the request whose publication handler i received, and the id it carried
Origin(i) == procs[procs[i].src]
OriginServerId(i) == PublishedServerId(env[Origin(i).rep])

\* handler i returned at once, without refreshing
Discarded(i) == procs[i].out.body = "ignored"

\* handler i is refreshing, or has refreshed, the tenant the event names
RefreshesNamedTenant(i) ==
  /\ procs[i].tenant = Origin(i).tenant
  /\ \/ procs[i].phase = "refresh"
     \/ procs[i].out.body \in {"refreshed", "refresh failed"}

\* C13: the invalidation handler discards an event exactly when the serverId
\* it carries equals the id this replica puts on its own events, and refreshes
\* the named tenant's entry for every other event.
C13_DiscardsExactlyOwn ==
  \A i \in MessageHandlers :
    /\ Discarded(i) <=> OriginServerId(i) = PublishedServerId(env[procs[i].rep])
    /\ ~Discarded(i) => RefreshesNamedTenant(i)

\* --------------------------------------------------------- redis properties
\* the clients of a role that are open or held in the module's variable
ExistingClients(role) ==
  { k \in DOMAIN redis.clients :
      /\ redis.clients[k].role = role
      /\ redis.clients[k].isOpen \/ k \in {redis.globalPublisher, redis.globalSubscriber} }

\* the calls of initialize() made while an _initialize call had not settled
CallsDuringInitialization == {c \in DOMAIN redis.calls : redis.calls[c].during # {}}

\* C14: whatever initialize() calls are made, at most one publisher client and
\* one subscriber client exist, at most one initialization is in flight, and a
\* call that arrives while an initialization is in flight starts none and
\* receives the result of that initialization.
C14_SingleInitialization ==
  /\ Cardinality(ExistingClients("publisher")) <= 1
  /\ Cardinality(ExistingClients("subscriber")) <= 1
  /\ Cardinality(InFlight(redis)) <= 1
  /\ \A c \in CallsDuringInitialization :
        /\ ~redis.calls[c].started
        /\ redis.calls[c].promise \in redis.calls[c].during
        /\ redis.calls[c].pc = "done" =>
              redis.calls[c].result = redis.promises[redis.calls[c].promise].value

\* a call that arrived during an initialization has received true, both
\* clients are open and a later call has been made as well
C14_Witness ==
  /\ \E c \in CallsDuringInitialization :
        redis.calls[c].pc = "done" /\ redis.calls[c].result = "true"
  /\ Len(redis.calls) = MaxInitCalls
  /\ redis.calls[MaxInitCalls].during = {}
  /\ \E k \in ExistingClients("publisher") : redis.clients[k].isOpen
  /\ \E k \in ExistingClients("subscriber") : redis.clients[k].isOpen

\* ------------------------------------------------------- publish properties
\* what a write or a manual refresh answers once its refresh has returned
AnswerAfterRefresh(p) ==
  [status |-> 200,
   body |-> IF p.kind \in RefreshKinds \/ p.added THEN "success:true" ELSE "success:false"]

\* the step is the publishTenantRefresh call of request i, entered in its own turn
PublishStep(i) ==
  /\ i \in DOMAIN procs
  /\ procs[i].pc = "publish"
  /\ procs'[i].pc = "done"

\* the step ends the refresh of request i and, in the same turn, runs
\* publishTenantRefresh with the broker disconnected
PublishSkippedStep(i) ==
  /\ InRefresh(i)
  /\ procs[i].kind \in ClientKinds
  /\ procs[i].pc = "created"
  /\ ~IsReady(procs[i].rep)
  /\ procs'[i].pc # "created"

\* the cache and the enforcers are what the same turn leaves with the broker connected
AsWithBrokerConnected(i) ==
  LET r == procs[i].rep IN
    \E heapPct \in HeapSamples(tc[r], now), thr \in SetTeardowns(tc[r], procs[i].tenant, now) :
      LET m == EnforcerCreated(Machine(r, procs[i]), now, heapPct, thr, TRUE)
      IN tc'[r] = m.c /\ heap' = m.h

\* C15: the publish step of a request never fails the request: whether the
\* message is sent, skipped because the broker is disconnected or lost in a
\* failing send, the request answers what it answers after a successful
\* publish and the publishing replica's cache is the same.
C15_PublishNeverFailsTheWrite ==
  [][\A i \in ProcIds :
       /\ PublishStep(i) =>
             /\ procs'[i].out = AnswerAfterRefresh(procs[i])
             /\ tc' = tc /\ heap' = heap
       /\ PublishSkippedStep(i) =>
             /\ procs'[i].pc = "done"
             /\ procs'[i].out = AnswerAfterRefresh(procs[i])
             /\ AsWithBrokerConnected(i)]_vars

\* a write on a replica whose broker connection is lost has answered success
\* and its invalidation reached nobody
C15_Witness ==
  \E i \in DOMAIN procs :
    /\ procs[i].kind \in WriteKinds
    /\ procs[i].pc = "done"
    /\ procs[i].out = [status |-> 200, body |-> "success:true"]
    /\ ~redisUp[procs[i].rep]
    /\ \A r \in Replicas \ {procs[i].rep} :
          /\ redisUp[r]
          /\ \A k \in DOMAIN inbox[r] : inbox[r][k].src # i
    /\ \A j \in MessageHandlers : procs[j].src # i

\* --------------------------------------------------------- write properties
\* how far a write handler has come: 1 pre-check sent, 2 pre-check answered,
\* 3 obtaining the enforcer, 4 INSERT sent, 5 INSERT answered, 6 reloading,
\* 7 about to publish, 8 answered
Stage(p) ==
  CASE p.pc = "check" -> 1
    [] p.pc = "checked" -> 2
    [] p.pc = "insert" -> 4
    [] p.pc = "inserted" -> 5
    [] p.pc = "publish" -> 7
    [] p.pc = "done" -> 8
    [] OTHER -> IF p.phase = "refresh" THEN 6 ELSE 3

\* the step is one of write handler i
WriteStep(i) ==
  /\ i \in DOMAIN procs
  /\ procs[i].kind \in WriteKinds
  /\ procs'[i] # procs[i]

\* the step puts a newly loaded enforcer into the cache for the write's tenant
ReplacesEntry(i) ==
  LET r == procs[i].rep
      t == procs[i].tenant
  IN /\ t \in DOMAIN tc'[r].cache
     /\ tc'[r].cache[t] > Len(heap)

\* C16: a write handler only moves forward through pre-check, store write,
\* reload with cache replacement and publish: the table changes only in the
\* INSERT step of a handler whose pre-check found nothing, the reload that
\* follows the INSERT replaces the entry only when it ends, a message is sent
\* only in the publish step; and a handler whose pre-check found the rule
\* answers 'already exists' at once, with no write, no replacement, no message.
C16_WriteStepsInOrder ==
  [][\A i \in ProcIds : WriteStep(i) =>
       /\ Stage(procs'[i]) >= Stage(procs[i])
       /\ store' # store =>
             Stage(procs[i]) = 4 /\ Stage(procs'[i]) = 5 /\ ~procs[i].dup
       /\ Stage(procs[i]) >= 4 /\ ReplacesEntry(i) =>
             Stage(procs[i]) = 6 /\ Stage(procs'[i]) > 6
       /\ inbox' # inbox => Stage(procs[i]) = 7 /\ Stage(procs'[i]) = 8
       /\ Stage(procs[i]) = 2 /\ procs[i].dup =>
             /\ procs'[i].pc = "done"
             /\ procs'[i].out.body = "error:already exists"
             /\ store' = store /\ tc' = tc /\ heap' = heap /\ inbox' = inbox]_vars

\* one write has gone through all four steps and its message has been sent,
\* another one has been stopped by its pre-check
C16_Witness ==
  /\ \E i \in DOMAIN procs :
        /\ procs[i].kind \in WriteKinds /\ procs[i].pc = "done" /\ procs[i].added
        /\ \E j \in MessageHandlers : procs[j].src = i
  /\ \E i \in DOMAIN procs :
        /\ procs[i].kind \in WriteKinds /\ procs[i].pc = "done" /\ procs[i].dup

\* ----------------------------------------------------- admission properties
\* the client requests whose handler is inside the cache or store code
RequestsInProgress == {i \in ClientRequests : procs[i].pc # "done"}

\* C17: requests reach the cache and the store only as tasks of the bounded
\* queue, so at most maxConcurrent of them are in progress at any time.
C17_AdmittedByQueue == Cardinality(RequestsInProgress) <= rq.maxConcurrent

\* the writes that were rejected because the pre-check found the rule
RejectedAsDuplicate ==
  {i \in DOMAIN procs : procs[i].kind \in WriteKinds /\ procs[i].pc = "done" /\ procs[i].dup}

\* C18: a write rejected as a duplicate is answered with a 4xx 'already
\* exists' response, never with a 5xx one.
C18_DuplicateIsClientError ==
  \A i \in RejectedAsDuplicate :
    /\ procs[i].out.body = "error:already exists"
    /\ procs[i].out.status \in 400..499

\* ---------------------------------------------------- create-group properties
\* the create-group requests for the group that were answered success
GroupCreations(b) ==
  { i \in DOMAIN procs :
      /\ procs[i].kind = "create-group"
      /\ procs[i].rule = GroupRule(b)
      /\ procs[i].pc = "done"
      /\ procs[i].out = [status |-> 200, body |-> "success:true"] }

\* C19: of the create-group requests sent for one (groupName, tenant), at most
\* one succeeds.
C19_OneCreateGroupSucceeds ==
  \A b \in GroupBodies : Cardinality(GroupCreations(b)) <= 1

\* ------------------------------------------------------ pre-check properties
\* the step is the one in which write handler i resumes after a pre-check that
\* threw (timeout, connection error, no adapter)
ResumesAfterFailedCheck(i) ==
  /\ i \in DOMAIN procs
  /\ procs[i].pc = "checked"
  /\ procs[i].checkThrew
  /\ procs'[i].pc # "checked"

\* C20: a write whose duplicate pre-check failed is answered with a retryable
\* store-unavailable failure in the step in which it resumes; it does not go
\* on to obtain the enforcer and write as if the rule were absent.
C20_FailedCheckStopsTheWrite ==
  [][\A i \in ProcIds : ResumesAfterFailedCheck(i) =>
       /\ procs'[i].pc = "done"
       /\ procs'[i].out.status = 503]_vars

\* -------------------------------------------------------- adapter properties
AdapterOperations ==
  {"loadPolicy", "savePolicy", "addPolicy", "removePolicy", "removeFilteredPolicy"}

\* C21: an operation called while this.tenant is not set throws at once: no
\* query is issued, the table and the caller's model are as they were.
C21_NoTenantFailsFast ==
  [][(adapter'.call.op \in AdapterOperations /\ adapter.tenant \in {Null, ""}) =>
       /\ adapter'.call.error = "Tenant must be set"
       /\ adapter'.call.queries = 0
       /\ store' = store
       /\ adapter'.model = adapter.model]_vars

\* a filtered removal has been refused for want of a tenant, on a table that
\* holds rules of both tenants
C21_Witness ==
  /\ adapter.tenant \in {Null, ""}
  /\ adapter.call.op = "removeFilteredPolicy"
  /\ adapter.call.error = "Tenant must be set"
  /\ \A t \in Tenants : \E row \in DOMAIN store : store[row] > 0 /\ TenantField(row) = t

ManualRefreshStep(i) ==
  /\ i \in DOMAIN procs
  /\ procs[i].kind = "refresh-tenant"
  /\ procs'[i] # procs[i]

\* the rows the table holds for the tenant
TenantRows(st, tenant) == {row \in DOMAIN st : st[row] > 0 /\ TenantField(row) = tenant}

\* the message a request publishes
RefreshMessage(i) ==
  [tenant |-> procs[i].tenant, operation |-> procs[i].kind,
   serverId |-> PublishedServerId(env[procs[i].rep]), src |-> i]

\* C23: a manual refresh never changes the table; its two queries read all the
\* tenant's rows; when the reload ends the tenant's entry is replaced by a new
\* instance made of those rows and only then, in a later step, the
\* invalidation is published to every connected replica and the request
\* answers success.
C23_ManualRefresh ==
  [][\A i \in ProcIds : ManualRefreshStep(i) =>
       LET r == procs[i].rep
           t == procs[i].tenant
       IN /\ store' = store
          /\ procs[i].pc = "loadPolicies" =>
                procs'[i].bufP = {row \in TenantRows(store, t) : row.ptype = "p"}
          /\ procs[i].pc = "loadGrouping" =>
                procs'[i].bufG = {row \in TenantRows(store, t) : row.ptype = "g"}
          /\ procs[i].pc = "created" =>
                /\ t \in DOMAIN tc'[r].cache
                /\ tc'[r].cache[t] = Len(heap) + 1
                /\ heap'[Len(heap) + 1] = LoadedEnforcer(t, procs[i].bufP, procs[i].bufG)
                /\ procs'[i].pc = "publish"
                /\ inbox' = inbox
          /\ procs[i].pc = "publish" =>
                /\ \A s \in Replicas : inbox'[s] = Append(inbox[s], RefreshMessage(i))
                /\ tc' = tc
                /\ procs'[i].out = [status |-> 200, body |-> "success:true"]]_vars

\* a manual refresh has answered, the tenant's entry on its replica is an
\* instance made after the first one, and a peer has handled its event
C23_Witness ==
  \E i \in DOMAIN procs :
    /\ procs[i].kind = "refresh-tenant"
    /\ procs[i].pc = "done"
    /\ procs[i].tenant \in DOMAIN tc[procs[i].rep].cache
    /\ tc[procs[i].rep].cache[procs[i].tenant] > 1
    /\ \E j \in MessageHandlers : procs[j].src = i /\ procs[j].rep # procs[i].rep

\* ---------------------------------------------------- rate limiter properties
\* the requests of the client that were admitted in the windowMs ending at t
AdmittedInWindow(l, clientId, t) ==
  IF clientId \notin DOMAIN l.admitted THEN {}
  ELSE { k \in DOMAIN l.admitted[clientId] :
           /\ l.admitted[clientId][k] > t - l.windowMs
           /\ l.admitted[clientId][k] <= t }

\* no window of windowMs holds more than maxRequests admitted requests of a client
WindowBound(l) ==
  \A clientId \in DOMAIN l.admitted, t \in 0..MaxRateNow :
    Cardinality(AdmittedInWindow(l, clientId, t)) <= l.maxRequests

\* the step is a request of the client
RequestOf(clientId) ==
  /\ limiter' # limiter
  /\ limiter'.answer.clientId = clientId

\* C24: within any windowMs a client has at most maxRequests requests
\* admitted; a request is rejected exactly when the client already has
\* maxRequests admitted in the window that ends now, then it gets 429 with the
\* retry-after hint and no timestamp is recorded for it.
C24_RateLimit ==
  [][/\ WindowBound(limiter')
     /\ \A clientId \in {ClientId(ip) : ip \in RequestIps} : RequestOf(clientId) =>
          LET full == Cardinality(AdmittedInWindow(limiter, clientId, now)) >= limiter.maxRequests
          IN /\ limiter'.answer.status = IF full THEN 429 ELSE 200
             /\ full => /\ limiter'.answer.retryAfter = RetryAfter(limiter.windowMs)
                         /\ limiter'.admitted = limiter.admitted
                         /\ (now \in Range(limiter'.requests[clientId]))
                              => (now \in Range(limiter.requests[clientId]))]_vars

\* a client has been rejected, and has been admitted again once the window
\* had moved on
C24_Witness ==
  \E clientId \in DOMAIN limiter.admitted :
    /\ Len(limiter.admitted[clientId]) > limiter.maxRequests
    /\ limiter.answer = [clientId |-> clientId, status |-> 429,
                          retryAfter |-> RetryAfter(limiter.windowMs)]

\* ------------------------------------------------- per-tenant state in memory
\* the cached instances and the memory-accounting entries of every replica
CacheEntriesBounded ==
  \A r \in Replicas :
    /\ Cardinality(DOMAIN tc[r].cache) <= tc[r].maxSize
    /\ Cardinality(DOMAIN tc[r].memoryUsage) <= tc[r].maxSize

\* C25: whatever tenants are accessed, a replica holds at most maxSize cached
\* instances, at most maxSize memory-accounting entries and at most maxSize
\* tenant adapters.
C25_TenantStateBounded ==
  /\ CacheEntriesBounded
  /\ \A r \in Replicas : Cardinality(pool[r].tenantAdapters) <= tc[r].maxSize

\* --------------------------------------------------- RedisManager singleton
\* every call of getRedisManager has returned the same instance
SameInstance == \A i, j \in DOMAIN redis.got : redis.got[i] = redis.got[j]

\* a direct construction fails whenever the singleton exists
DirectConstructionRefused ==
  [][(redis.singletonInstance # 0 /\ ~redis'.exited) => redis'.managers = redis.managers]_vars

\* C26: getRedisManager returns the same instance on every call and at most
\* one RedisManager instance exists in the process.
C26_OneManager ==
  /\ SameInstance
  /\ Len(redis.managers) <= 1

\* ------------------------------------------------ instances held by handlers
\* the handler holds the enforcer it got from getTenantEnforcer over the step
HoldsOver(i, id) ==
  /\ i \in DOMAIN procs
  /\ procs[i].e = {id}
  /\ procs'[i].e = {id}

\* the step takes the instance out of a replica's cache
LeavesCache(id) ==
  \E r \in Replicas : \E t \in DOMAIN tc[r].cache :
    /\ tc[r].cache[t] = id
    /\ t \notin DOMAIN tc'[r].cache \/ tc'[r].cache[t] # id

\* no step changes the rules of an instance that a handler got from the cache
\* and still uses
HeldInstanceUnchanged ==
  [][\A i \in ProcIds : \A id \in DOMAIN heap :
       HoldsOver(i, id) => heap'[id] = heap[id]]_vars

\* C27: an instance that a handler got from the cache and still uses is not
\* mutated; in particular an eviction or a cleanup pass run by another request
\* that takes the instance out of the cache leaves its rules as they are.
C27_EvictionSparesHeldInstance ==
  [][\A i \in ProcIds : \A id \in DOMAIN heap :
       (HoldsOver(i, id) /\ LeavesCache(id)) => heap'[id] = heap[id]]_vars

\* ------------------------------------------------------ teardown on leaving
\* the instances a replica's cache holds
CachedInstances(c) == {c.cache[t] : t \in DOMAIN c.cache}

\* the call of the step has run the teardown of the instance: its rules are
\* gone, or clearPolicy() threw and the error was caught
TeardownCalled(id) ==
  \/ heap'[id].p = {} /\ heap'[id].g = {}
  \/ lastOp'.thr = "clearPolicyThrows"

\* the instance of every tenant that a call removes from the cache has its
\* teardown run by that call
TeardownOnEviction ==
  [][\A r \in Replicas : \A t \in (DOMAIN tc[r].cache) \ (DOMAIN tc'[r].cache) :
       TeardownCalled(tc[r].cache[t])]_vars

\* C28: every instance that a get, set or delete call takes out of the cache
\* (LRU eviction, pressure eviction, removal of the tenant, replacement by a
\* set for the same tenant) has its teardown run by that call.
C28_TeardownOnLeaving ==
  [][\A r \in Replicas : \A id \in CachedInstances(tc[r]) \ CachedInstances(tc'[r]) :
       TeardownCalled(id)]_vars

\* --------------------------------------------------------- memory accounting
\* the sum of estimateEnforcerMemory over the instances the cache holds
RECURSIVE SumOfEstimates(_, _)
SumOfEstimates(c, tenants) ==
  IF tenants = {} THEN 0
  ELSE LET t == CHOOSE x \in tenants : TRUE
       IN EstimateEnforcerMemory(heap[c.cache[t]]) + SumOfEstimates(c, tenants \ {t})

\* C29: set records the estimate of the instance it installs, also when it
\* replaces the tenant's instance, so the total that getStats reports is the
\* sum of the estimates of the instances in the cache.
C29_TotalIsSumOfEstimates ==
  \A r \in Replicas :
    /\ lastOp.op = "set" /\ lastOp.rep = r =>
         tc[r].memoryUsage[lastOp.tenant] =
           EstimateEnforcerMemory(heap[tc[r].cache[lastOp.tenant]])
    /\ GetStats(tc[r]).total = SumOfEstimates(tc[r], DOMAIN tc[r].cache)

\* ----------------------------------------------------------- cleanup passes
\* the step is a get call on the replica whose cleanup pass runs
CleanupRuns(r) ==
  /\ lastOp'.op = "get"
  /\ lastOp'.rep = r
  /\ ~CleanupNotDue(tc[r], now)

\* the k least recently used tenants
LeastRecentlyUsed(c, k) ==
  {c.accessOrder[i] : i \in 1..(IF k < Len(c.accessOrder) THEN k ELSE Len(c.accessOrder))}

\* a cleanup pass that runs evicts the least recently used 70% of the entries
\* when the heap usage is above the threshold, and else only the entries
\* beyond maxSize
EvictsAbove(threshold) ==
  \A r \in Replicas : CleanupRuns(r) =>
    LET size == Cardinality(DOMAIN tc[r].cache)
        evictCount == IF lastOp'.heapPct > threshold THEN (size * 7) \div 10
                      ELSE IF size > tc[r].maxSize THEN size - tc[r].maxSize
                      ELSE 0
    IN (DOMAIN tc[r].cache) \ (DOMAIN tc'[r].cache) = LeastRecentlyUsed(tc[r], evictCount)

\* the pass as the code's comment describes it: above 70% of the heap
EvictsAboveSeventy == [][EvictsAbove(AggressivePercent)]_vars

\* C30: a cleanup pass that runs evicts the least recently used 70% of the
\* entries only when the heap usage is above 85%, and at any lower usage only
\* the entries beyond maxSize, none when the cache is within capacity.
C30_PressureEviction == [][EvictsAbove(85)]_vars

\* ------------------------------------------------------ cleanup rate limit
\* the call of the step comes less than cleanupInterval after the last pass
\* (or after the construction of the cache)
TooEarly(r) == now - tc[r].lastCleanup < tc[r].cleanupInterval

\* C31: the eviction pass of cleanup runs at most once per cleanupInterval:
\* a pass is recorded only cleanupInterval or more after the previous one, and
\* a get made earlier removes nothing from the cache, the memory accounting or
\* the enforcers; a set made earlier leaves lastCleanup as it was.
C31_CleanupRateLimited ==
  [][\A r \in Replicas :
       /\ tc'[r].lastCleanup # tc[r].lastCleanup =>
            /\ ~TooEarly(r)
            /\ tc'[r].lastCleanup = now
       /\ (lastOp'.op \in {"get", "set"} /\ lastOp'.rep = r /\ TooEarly(r)) =>
            tc'[r].lastCleanup = tc[r].lastCleanup
       /\ (lastOp'.op = "get" /\ lastOp'.rep = r /\ TooEarly(r)) =>
            /\ tc'[r].cache = tc[r].cache
            /\ tc'[r].memoryUsage = tc[r].memoryUsage
            /\ Range(tc'[r].accessOrder) = Range(tc[r].accessOrder)
            /\ heap' = heap]_vars

\* a get has been made on a cache of two tenants less than cleanupInterval
\* after a pass that ran
C31_Witness ==
  /\ lastOp.op = "get"
  /\ tc["rA"].lastCleanup > 0
  /\ now > tc["rA"].lastCleanup
  /\ now - tc["rA"].lastCleanup < tc["rA"].cleanupInterval
  /\ Cardinality(DOMAIN tc["rA"].cache) = 2

\* ------------------------------------------------------------- LRU order
\* the step is the call op(tenant) on the replica's cache
CacheCall(op, r, tenant) ==
  /\ lastOp'.op = op
  /\ lastOp'.rep = r
  /\ lastOp'.tenant = tenant

\* the cache holds maxSize tenants or more
Full(c) == Cardinality(DOMAIN c.cache) >= c.maxSize

C33_AcceptedIsDispatched ==
  \A i \in Tasks : (taskState[i] = "queued") ~> (taskState[i] \in {"running", "settled"})

\* with one task at a time, the second task has waited in the queue while time
\* passed and runs now that the first has finished with an error
C33_Witness ==
  /\ rq.maxConcurrent = 1
  /\ taskOut[1] = <<TaskError(1)>>
  /\ taskState[2] = "running"
  /\ rq.stats.totalWaitTime > 0

\* ------------------------------------------------------ the connection pool
\* C34: a replica creates at most one store connection pool, also when
\* several first requests call getTenantAdapter before initialize has finished.
C34_OnePoolPerReplica == \A r \in Replicas : pool[r].created <= 1

\* ------------------------------------------------- the cache's three indexes
\* C35: after every cache operation the cache map, the memory accounting and
\* the access order hold the same tenants, and the access order holds each
\* tenant once.
C35_IndexesAgree ==
  \A r \in Replicas :
    /\ DOMAIN tc[r].memoryUsage = DOMAIN tc[r].cache
    /\ Range(tc[r].accessOrder) = DOMAIN tc[r].cache
    /\ Len(tc[r].accessOrder) = Cardinality(DOMAIN tc[r].cache)

\* a set into a full cache of two tenants has evicted a tenant whose teardown
\* threw, after a cleanup pass had run
C35_Witness ==
  /\ lastOp.op = "set"
  /\ lastOp.thr = "clearPolicyThrows"
  /\ tc["rA"].lastCleanup > 0
  /\ Cardinality(DOMAIN tc["rA"].cache) = 2
  /\ \E i \in DOMAIN heap :
       /\ heap[i].p # {}
       /\ \A t \in DOMAIN tc["rA"].cache : tc["rA"].cache[t] # i

\* ------------------------------------------------------- concurrent misses
\* the handlers on the replica that have missed the cache for the tenant and
\* are inside getTenantEnforcer's createTenantEnforcer
LoadsInProgress(r, t) ==
  { i \in DOMAIN procs :
      /\ procs[i].rep = r
      /\ procs[i].tenant = t
      /\ procs[i].phase = "enforcer"
      /\ procs[i].pc \in {"authenticate", "loadPolicies", "loadGrouping", "created"} }

\* C36: requests that miss the cache for the same tenant at the same time
\* share one load: a replica never has two loads of one tenant in progress.
C36_OneLoadPerTenant ==
  \A r \in Replicas, t \in Tenants : Cardinality(LoadsInProgress(r, t)) <= 1

\* ------------------------------------------------------- loads as snapshots
\* the table after the first k commits
StoreAfter(k) ==
  [row \in AllRows |->
     IF row \in InitialRows \/ row \in Range(SubSeq(CommitLog, 1, k)) THEN 1 ELSE 0]

\* the instance a load of the tenant builds when both queries see the table st
SnapshotOf(st, tenant) ==
  LoadedEnforcer(tenant, SelectPolicies(st, tenant), SelectGroupingPolicies(st, tenant))

\* C37: every instance built by a load holds the tenant's permission rules and
\* grouping rules as the table held them at one instant, also when writes
\* are committed between the load's two queries.
C37_LoadIsSnapshot ==
  \A id \in DOMAIN heap :
    \E k \in 0..Len(CommitLog) : heap[id] = SnapshotOf(StoreAfter(k), heap[id].tenant)

\* ------------------------------------------------------ events do not circulate
\* the events request or handler i has caused that replica r has received:
\* those waiting in its inbox and those its handlers have taken
EventsFrom(i, r) ==
  Cardinality({k \in DOMAIN inbox[r] : inbox[r][k].src = i})
    + Cardinality({j \in MessageHandlers : procs[j].rep = r /\ procs[j].src = i})

\* C38: a handler of a received event refreshes and never publishes: every
\* event comes from a write or a manual refresh of a client, and each of
\* these reaches a replica at most once.
C38_EventsDoNotCirculate ==
  /\ \A j \in MessageHandlers :
       /\ procs[j].pc # "publish"
       /\ Origin(j).kind \in ClientKinds
  /\ \A r \in Replicas : \A k \in DOMAIN inbox[r] :
       procs[inbox[r][k].src].kind \in ClientKinds
  /\ \A i \in DOMAIN procs, r \in Replicas : EventsFrom(i, r) <= 1

\* a write has been published, the peer's handler has refreshed on its event,
\* every handler is done and no event is left anywhere
C38_Witness ==
  /\ \A r \in Replicas : inbox[r] = <<>>
  /\ \A i \in DOMAIN procs : procs[i].pc = "done"
  /\ \E j \in MessageHandlers :
       /\ procs[j].out.body = "refreshed"
       /\ Origin(j).kind \in WriteKinds
       /\ Origin(j).rep # procs[j].rep

\* ------------------------------------------------------------ dispatch order
\* C39: tasks are started in the order in which add() accepted them: the
\* started tasks are in submission order and every task still waiting was
\* submitted after all of them.
C39_DispatchInSubmissionOrder ==
  /\ \A k \in 1..(Len(startOrder) - 1) : startOrder[k] < startOrder[k + 1]
  /\ \A i \in Tasks : taskState[i] = "queued" =>
       \A k \in 1..Len(startOrder) : startOrder[k] < i

\* tasks 2 and 3 waited together behind task 1 (the fourth add found the
\* queue full) and all three have been started
C39_Witness ==
  /\ rq.maxConcurrent = 1
  /\ rq.maxQueueSize = 2
  /\ taskOut[4] = <<QueueFullError>>
  /\ startOrder = <<1, 2, 3>>
====
